---- MODULE Spec2Model ----
(***************************************************************************)
(* Model of runpod/tql: the SQL column mapper Parse[T] with the string and *)
(* regular-expression helpers it is built from, New, Generate,             *)
(* PrepareContext and QueryContext (src/tql.go), and package sqlfmt: Quote *)
(* and the classifiers of issimple and needsutf8.  SQL text, struct tags   *)
(* and column names are TLA+ strings; a character of a string s is         *)
(* SubSeq(s, i, i).  The regular expressions of the source are modelled by *)
(* matchers with the leftmost-first semantics of Go's regexp package, over *)
(* ASCII text.  The strings of package sqlfmt are tuples of bytes.         *)
(***************************************************************************)
EXTENDS Integers, Sequences, FiniteSets, TLC

VARIABLES
    recType,         \* the record type T of Query[T]
    sqlIn,           \* the SQL text the caller wrote
    sql,             \* the SQL text at hand: the input, then what Parse returned
    indices,         \* the scan plan Parse returned
    selectMatches,   \* Parse's local matches: the captures of selectRegex
    selectedFields,  \* Parse's local selectedFields at its return
    pass,            \* how many times Parse has run
    prevSql,         \* the text the last Parse was given
    prevIndices,     \* the scan plan before the last Parse
    dest,            \* per scanned column, the field QueryContext writes it to
    entry,           \* the entry point the run goes through: Parse or New
    typeParam,       \* the type parameter T of New[T]
    templateText,    \* the SQL template New is given
    functions,       \* the template functions New is given
    queryTemplate,   \* the query template New returned
    called,          \* the calls made so far
    args,            \* the arguments of the last PrepareContext or QueryContext
    statement,       \* the statement the last call prepared
    err,             \* the error the last call returned
    sent,            \* the SQL texts handed to the database's PrepareContext
    str,             \* the byte string the classifiers and Quote are given
    scratchBuf,      \* the bytes of the buffer Quote and QuoteIfNeeded are given
    isSimple,        \* what Naive, Unroll16 and Unroll64 of issimple returned
    needsUTF8,       \* what Naive, Unroll8, Unroll16 and Unroll32 of needsutf8 returned
    quoted,          \* what Quote returned
    quotedIfNeeded,  \* what QuoteIfNeeded returned
    variant,         \* the variant of the package the statement belongs to
    closes,          \* how often Close of the database's statement was called
    used,            \* how often the database's statement was executed or queried
    ctxDone,         \* the context PrepareContext was given is cancelled
    afterFunc,       \* where the function registered with context.AfterFunc stands
    call,            \* the method of the statement the caller is in, and where
    last,            \* the last method of the statement that ended, and how
    calls,           \* how many methods of the statement the caller has called
    closed           \* a Close of the caller on the statement has returned

parseVars == <<recType, sqlIn, sql, indices, selectMatches, selectedFields, pass, prevSql, prevIndices>>

apiVars == <<typeParam, templateText, functions, queryTemplate, called, args, statement, err, sent>>

quoteVars == <<str, scratchBuf, isSimple, needsUTF8, quoted, quotedIfNeeded>>

stmtVars == <<variant, closes, used, ctxDone, afterFunc, call, last, calls, closed>>

vars == <<parseVars, dest, entry, apiVars, quoteVars, stmtVars>>

(***************************************************************************)
(* Characters and the strings package                                      *)
(***************************************************************************)

At(s, i) == SubSeq(s, i, i)

Min(S) == CHOOSE x \in S : \A y \in S : x <= y

Max(S) == CHOOSE x \in S : \A y \in S : x >= y

UpperLetters == "ABCDEFGHIJKLMNOPQRSTUVWXYZ"

LowerLetters == "abcdefghijklmnopqrstuvwxyz"

Digits == "0123456789"

CharsOf(s) == {At(s, i) : i \in 1..Len(s)}

\* the class \w of Go's regexp: [0-9A-Za-z_]
WordChars == CharsOf(UpperLetters) \cup CharsOf(LowerLetters) \cup CharsOf(Digits) \cup {"_"}

\* the class \s of Go's regexp: [\t\n\f\r ]
SpaceChars == {" ", "\t", "\n", "\r", "\f"}

IsWordChar(c) == c \in WordChars

IsSpace(c) == c \in SpaceChars

\* s[i..] starts with a keyword in any mix of cases, as the (?i) flag matches
\* it: each character is the lower-case or the upper-case letter
FoldedAt(s, i, lower, upper) ==
    /\ i >= 1
    /\ i + Len(lower) - 1 <= Len(s)
    /\ \A k \in 1..Len(lower) :
          \/ At(s, i + k - 1) = At(lower, k)
          \/ At(s, i + k - 1) = At(upper, k)

\* strings.Index, 1-based; 0 when sub does not occur in s
Index(s, sub) ==
    LET n == Len(sub)
        hits == {i \in 1..(Len(s) - n + 1) : SubSeq(s, i, i + n - 1) = sub}
    IN IF hits = {} THEN 0 ELSE Min(hits)

\* strings.TrimSpace over ASCII white space
TrimSpace(s) ==
    LET keep == {i \in 1..Len(s) : ~IsSpace(At(s, i))}
    IN IF keep = {} THEN "" ELSE SubSeq(s, Min(keep), Max(keep))

RECURSIVE Split(_, _)
\* strings.Split(s, sep) for a non-empty separator
Split(s, sep) ==
    LET i == Index(s, sep)
    IN IF i = 0
       THEN <<s>>
       ELSE <<SubSeq(s, 1, i - 1)>> \o Split(SubSeq(s, i + Len(sep), Len(s)), sep)

RECURSIVE Join(_, _)
\* strings.Join(elems, sep)
Join(elems, sep) ==
    IF Len(elems) = 0 THEN ""
    ELSE IF Len(elems) = 1 THEN elems[1]
    ELSE elems[1] \o sep \o Join(Tail(elems), sep)

\* strings.Replace(s, old, new, 1): the first occurrence of old, wherever it is
ReplaceFirst(s, old, new) ==
    LET i == Index(s, old)
    IN IF i = 0
       THEN s
       ELSE SubSeq(s, 1, i - 1) \o new \o SubSeq(s, i + Len(old), Len(s))

\* strings.HasPrefix
HasPrefix(s, prefix) == Len(s) >= Len(prefix) /\ SubSeq(s, 1, Len(prefix)) = prefix

(***************************************************************************)
(* The regular expressions of src/tql.go                                   *)
(***************************************************************************)

\* \b at the gap before s[p]: exactly one of s[p-1], s[p] is a word character
WordBoundary(s, p) ==
    LET before == p >= 2 /\ p - 1 <= Len(s) /\ IsWordChar(At(s, p - 1))
        after == p >= 1 /\ p <= Len(s) /\ IsWordChar(At(s, p))
    IN before # after

\* FROM\b preceded by white space: the text s[f..f+3] is FROM in any case
FromAt(s, f) ==
    /\ f >= 2
    /\ IsSpace(At(s, f - 1))
    /\ FoldedAt(s, f, "from", "FROM")
    /\ WordBoundary(s, f + 4)

\* The match of selectRegex that starts at i, or NoMatch.  SELECT is matched in
\* any case and needs no word boundary before it; the first \s+ is greedy and
\* gives characters back only when no FROM can follow; (.+?) is lazy and, with
\* the s flag, runs over line breaks up to the first "\s+FROM\b" that leaves
\* it at least one character.  lo..hi is the capture, end the last character.
NoMatch == [lo |-> 0, hi |-> 0, end |-> 0]

\* the lengths the first \s+ can take behind the SELECT at i
SpaceRuns(s, i) ==
    {k \in 1..(Len(s) - i - 5) : \A j \in 1..k : IsSpace(At(s, i + 5 + j))}

\* the places of a FROM that leaves a capture starting at c one character
FromsAfter(s, c) == {f \in (c + 2)..(Len(s) - 3) : FromAt(s, f)}

\* the lengths of the first \s+ behind which a match can be completed
Feasible(s, i) == {k \in SpaceRuns(s, i) : FromsAfter(s, i + 6 + k) # {}}

\* the match with the capture starting at c and the FROM at f: the capture
\* ends before the white space that runs up to the FROM
SelectMatchWith(s, c, f) ==
    [lo |-> c,
     hi |-> Min({x \in c..(f - 2) : \A j \in (x + 1)..(f - 1) : IsSpace(At(s, j))}),
     end |-> f + 3]

SelectMatchAt(s, i) ==
    IF ~FoldedAt(s, i, "select", "SELECT") THEN NoMatch
    ELSE IF Feasible(s, i) = {} THEN NoMatch
    ELSE SelectMatchWith(s, i + 6 + Max(Feasible(s, i)),
                         Min(FromsAfter(s, i + 6 + Max(Feasible(s, i)))))

RECURSIVE FindAllSelect(_, _)
\* the match that starts at the first of starts, then the matches after its end
FindAllNext(s, m) == <<m>> \o FindAllSelect(s, m.end + 1)

FindAllFrom(s, starts) ==
    IF starts = {} THEN <<>> ELSE FindAllNext(s, SelectMatchAt(s, Min(starts)))

\* selectRegex.FindAllStringSubmatchIndex(s, -1) from position p on: the
\* leftmost match, then the next one after its end
FindAllSelect(s, p) ==
    FindAllFrom(s, {i \in p..(Len(s) - 5) : SelectMatchAt(s, i) # NoMatch})

\* the text of the capture of each match
Captures(s, found) == [k \in 1..Len(found) |-> SubSeq(s, found[k].lo, found[k].hi)]

\* matches[k][1] of selectRegex.FindAllStringSubmatch(s, -1)
selectRegex(s) == Captures(s, FindAllSelect(s, 1))

RECURSIVE Tokens(_)
\* The atoms of a regular expression built from names and the escapes the
\* source writes: a backslash and the character after it are one atom (\. \*
\* literal, \b the boundary), every other character is an atom of its own.
Tokens(re) ==
    IF Len(re) = 0 THEN <<>>
    ELSE IF At(re, 1) = "\\" /\ Len(re) >= 2
         THEN <<SubSeq(re, 1, 2)>> \o Tokens(SubSeq(re, 3, Len(re)))
         ELSE <<At(re, 1)>> \o Tokens(SubSeq(re, 2, Len(re)))

\* one consuming atom against one character: an unescaped "." is any
\* character but the line feed, an escaped character is itself
AtomMatches(atom, c) ==
    IF atom = "." THEN c # "\n"
    ELSE IF Len(atom) = 2 THEN c = At(atom, 2)
    ELSE c = atom

RECURSIVE MatchTokens(_, _, _, _)
\* the atoms toks[k..] match s from position p on
MatchTokens(toks, k, s, p) ==
    IF k > Len(toks) THEN TRUE
    ELSE IF toks[k] = "\\b" THEN WordBoundary(s, p) /\ MatchTokens(toks, k + 1, s, p)
    ELSE /\ p <= Len(s)
         /\ AtomMatches(toks[k], At(s, p))
         /\ MatchTokens(toks, k + 1, s, p + 1)

\* regexp `(^|[^.])\b` + word matches somewhere in source: the word starts at
\* p, at the start of the text or after a character that is not a dot, and at
\* a word boundary; nothing is required after the word
matchWord(source, toks) ==
    \E p \in 1..(Len(source) + 1) :
       /\ MatchTokens(toks, 1, source, p)
       /\ p = 1 \/ At(source, p - 1) # "."
       /\ WordBoundary(source, p)

containsWord(source, word) == matchWord(source, Tokens(word))

\* containsWords(source, words...)
containsWords(source, words) ==
    \E w \in 1..Len(words) : containsWord(source, words[w])

\* matchesContainsWords(matches, words...)
matchesContainsWords(matches, words) ==
    \E m \in 1..Len(matches) : containsWords(matches[m], words)

RECURSIVE tagRegex(_)
\* tagRegex.FindAllStringSubmatch(tag, -1): each match is a run of word
\* characters and, when "=" follows, the text up to the next ";".
\* m0 is the whole match, m1 the key, m2 the value ("" when absent).
tagRegex(tag) ==
    LET n == Len(tag)
        starts == {i \in 1..n : IsWordChar(At(tag, i))}
    IN IF starts = {} THEN <<>>
       ELSE
         LET i == Min(starts)
             e == Min({x \in i..n : x = n \/ ~IsWordChar(At(tag, x + 1))})
             hasValue == e < n /\ At(tag, e + 1) = "="
             v == IF hasValue
                  THEN Min({x \in (e + 1)..n : x = n \/ At(tag, x + 1) = ";"})
                  ELSE e
         IN <<[m0 |-> SubSeq(tag, i, v),
               m1 |-> SubSeq(tag, i, e),
               m2 |-> IF hasValue THEN SubSeq(tag, e + 2, v) ELSE ""]>>
            \o tagRegex(SubSeq(tag, v + 1, n))

(***************************************************************************)
(* Record types as reflect sees them: a struct type has a Name and Fields; *)
(* a field has its Go Name, the value of its tql tag, the Kind of its type *)
(* and, for a struct, the fields of that type.                             *)
(***************************************************************************)

Scalar(name, tag) == [Name |-> name, Tag |-> tag, Kind |-> "scalar", Fields |-> <<>>]

Struct(name, tag, fields) == [Name |-> name, Tag |-> tag, Kind |-> "struct", Fields |-> fields]

RECURSIVE tagLoop(_, _, _)
\* the loop of parseTQLTag over the matches of tagRegex
tagLoop(results, matches, k) ==
    IF k > Len(matches) THEN results
    ELSE
      LET match == matches[k]
          value == TrimSpace(match.m2)
      IN IF value # ""
         THEN IF TrimSpace(match.m1) = "omit"
              THEN tagLoop([results EXCEPT !.omit = TrimSpace(match.m2)], matches, k + 1)
              ELSE tagLoop(results, matches, k + 1)
         ELSE IF value # "-"
              THEN tagLoop([results EXCEPT !.field = TrimSpace(match.m0)], matches, k + 1)
              ELSE tagLoop(results, matches, k + 1)

\* parseTQLTag(field): the column name and the omit option of a field's tag
parseTQLTag(field) ==
    tagLoop([omit |-> "", field |-> field.Name], tagRegex(field.Tag), 1)

RECURSIVE aliasLoop(_, _, _)
\* the loop of toSelectedField over the comma-separated parts of the span
aliasLoop(qualifiedName, fields, k) ==
    IF k > Len(fields) THEN qualifiedName
    ELSE
      LET maybeAlias == Split(fields[k], " as ")
      IN IF Len(maybeAlias) > 1 /\ TrimSpace(maybeAlias[2]) = qualifiedName
         THEN maybeAlias[1] \o " as " \o qualifiedName
         ELSE aliasLoop(qualifiedName, fields, k + 1)

\* toSelectedField(qualifiedName, selectedFields)
toSelectedField(qualifiedName, fields) == aliasLoop(qualifiedName, fields, 1)

\* the table a top-level field with the tag tableOrFieldTag stands for in
\* Parse: an embedded struct is a table named by its tag; anything else makes
\* the record itself the table
TableTagged(T, i, tableOrFieldTag) ==
    IF T.Fields[i].Kind # "struct"
    THEN [tableName |-> "", indices |-> <<>>, omit |-> tableOrFieldTag.omit,
          fields |-> T.Fields, isRoot |-> TRUE]
    ELSE [tableName |-> tableOrFieldTag.field, indices |-> <<i - 1>>,
          omit |-> tableOrFieldTag.omit, fields |-> T.Fields[i].Fields,
          isRoot |-> FALSE]

TableOf(T, i) == TableTagged(T, i, parseTQLTag(T.Fields[i]))

\* qualifiedName of a field of a table
QualifiedName(tableName, field) ==
    IF tableName # "" THEN tableName \o "." \o field ELSE field

\* SelectAllFromTable that looks for "X.*" only and misses the bare "*"
SelectAllFromTableNoStar(matches, tableName) ==
    /\ containsWords(matches[1], <<tableName \o "\\.\\*">>)
    /\ ~matchesContainsWords(matches, <<tableName \o "\\.\\b">>)

\* selectAllFromTable: "*" or "X.*" in the first span, and no span with "X."
\* before a word character
SelectAllFromTable(matches, tableName) ==
    /\ \/ TrimSpace(matches[1]) = "*"
       \/ containsWords(matches[1], <<tableName \o "\\.\\*">>)
    /\ ~matchesContainsWords(matches, <<tableName \o "\\.\\b">>)

\* Omitted that reads the field's own tag and not the omit list of the table
OmittedByOwnTag(tableOmit, fieldTag, qualifiedName) == fieldTag.omit = "true"

\* the field is dropped by its own tag or by the omit list of its table
Omitted(tableOmit, fieldTag, qualifiedName) ==
    \/ fieldTag.omit = "true"
    \/ containsWords(tableOmit, <<fieldTag.field, qualifiedName>>)

\* Referenced with the field name left out of the table.field pattern
ReferencedByTable(matches, tableName, field, qualifiedName) ==
    matchesContainsWords(matches, <<qualifiedName, tableName \o "\\.", field>>)

\* some span names the field
Referenced(matches, tableName, field, qualifiedName) ==
    matchesContainsWords(matches, <<qualifiedName, tableName \o "\\." \o field, field>>)

\* FieldNamed with the index path put in front of the plan instead of behind it
FieldNamedPrepends(acc, matches, splitFields, table, selectAllFromTable, j, fieldTag, qualifiedName) ==
    IF Omitted(table.omit, fieldTag, qualifiedName) THEN acc
    ELSE IF /\ ~Referenced(matches, table.tableName, fieldTag.field, qualifiedName)
            /\ ~selectAllFromTable
         THEN acc
    ELSE [selectedFields |->
            Append(acc.selectedFields, toSelectedField(qualifiedName, splitFields)),
          allIndices |-> <<table.indices \o <<j - 1>>>> \o acc.allIndices]

\* the body of the inner loop of Parse for field j, with its tag and its
\* qualified name at hand: skip the field, or append its column and its path
FieldNamed(acc, matches, splitFields, table, selectAllFromTable, j, fieldTag, qualifiedName) ==
    IF Omitted(table.omit, fieldTag, qualifiedName) THEN acc
    ELSE IF /\ ~Referenced(matches, table.tableName, fieldTag.field, qualifiedName)
            /\ ~selectAllFromTable
         THEN acc
    ELSE [selectedFields |->
            Append(acc.selectedFields, toSelectedField(qualifiedName, splitFields)),
          allIndices |-> Append(acc.allIndices, table.indices \o <<j - 1>>)]

FieldTagged(acc, matches, splitFields, table, selectAllFromTable, j, fieldTag) ==
    FieldNamed(acc, matches, splitFields, table, selectAllFromTable, j, fieldTag,
               QualifiedName(table.tableName, fieldTag.field))

\* one pass of the inner loop of Parse: field j of the table
FieldStep(acc, matches, splitFields, table, selectAllFromTable, j) ==
    FieldTagged(acc, matches, splitFields, table, selectAllFromTable, j,
                parseTQLTag(table.fields[j]))

RECURSIVE FieldLoop(_, _, _, _, _, _)
FieldLoop(acc, matches, splitFields, table, selectAllFromTable, j) ==
    IF j > Len(table.fields) THEN acc
    ELSE FieldLoop(FieldStep(acc, matches, splitFields, table, selectAllFromTable, j),
                   matches, splitFields, table, selectAllFromTable, j + 1)

\* the inner loop of Parse over the fields of one table
TableFields(acc, matches, splitFields, table) ==
    FieldLoop(acc, matches, splitFields, table,
              SelectAllFromTable(matches, table.tableName), 1)

RECURSIVE TableLoop(_, _, _, _, _)
\* the end of a pass of the outer loop: left when the record itself was the
\* table, else on to the next top-level field
TableNext(next, matches, splitFields, T, i) ==
    IF T.Fields[i].Kind # "struct" THEN next
    ELSE TableLoop(next, matches, splitFields, T, i + 1)

\* the outer loop of Parse over the top-level fields
TableLoop(acc, matches, splitFields, T, i) ==
    IF i > Len(T.Fields) THEN acc
    ELSE TableNext(TableFields(acc, matches, splitFields, TableOf(T, i)),
                   matches, splitFields, T, i)

\* the return of Parse when spans were found: the list replaces the first
\* occurrence of the first capture
Rewrite(text, found, acc) ==
    [sql |-> ReplaceFirst(text, found[1], Join(acc.selectedFields, ", ")),
     indices |-> acc.allIndices,
     matches |-> found,
     selectedFields |-> acc.selectedFields]

ParseMatches(T, text, found) ==
    IF Len(found) > 0
    THEN Rewrite(text, found,
                 TableLoop([selectedFields |-> <<>>, allIndices |-> <<>>],
                           found, Split(found[1], ","), T, 1))
    ELSE [sql |-> text, indices |-> <<>>, matches |-> <<>>, selectedFields |-> <<>>]

\* Parse[T](sql): the rewritten SQL, the scan plan, and the locals matches
\* and selectedFields as they stand at the return
Parse(T, text) == ParseMatches(T, text, selectRegex(text))

(***************************************************************************)
(* The record types and SQL texts the mapper is run on                     *)
(***************************************************************************)

\* type User of src/tql_test.go
UserFields ==
    <<Scalar("Id", "id"), Scalar("Name", "name"),
      Scalar("UUID", "uuid"), Scalar("CreatedAt", "createdAt")>>

\* type Account of src/tql_test.go, with the userId column the joins are on
AccountFields == <<Scalar("Id", "id"), Scalar("UserId", "userId")>>

RecordTypes ==
    [User |-> [Name |-> "User", Fields |-> UserFields],
     UserAccount |->
        [Name |-> "Results",
         Fields |-> <<Struct("User", "", UserFields), Struct("Account", "", AccountFields)>>],
     \* TestWithOmitField
     OmitField |->
        [Name |-> "Results",
         Fields |-> <<Struct("User", "", <<Scalar("Id", "id"), Scalar("Name", "omit")>>)>>],
     UserOmit |->
        [Name |-> "Results",
         Fields |-> <<Struct("User", "omit=createdAt",
                             <<Scalar("Id", "id"), Scalar("Name", "name"),
                               Scalar("CreatedAt", "createdAt")>>)>>],
     \* a table whose omit list names a column that another column's name is
     \* the beginning of
     CreatedOmit |->
        [Name |-> "Results",
         Fields |-> <<Struct("User", "omit=createdAt",
                             <<Scalar("Id", "id"), Scalar("Created", "created"),
                               Scalar("CreatedAt", "createdAt")>>)>>],
     \* a record with a table and a column of its own next to it
     TableAndColumn |->
        [Name |-> "Results",
         Fields |-> <<Struct("User", "", UserFields), Scalar("Total", "total")>>],
     ColumnAndTable |->
        [Name |-> "Results",
         Fields |-> <<Scalar("Total", "total"), Struct("User", "", UserFields)>>],
     \* struct{ Id, UserId int } of TestNestedQueryJoin
     IdUserId |->
        [Name |-> "",
         Fields |-> <<Scalar("Id", ""), Scalar("UserId", "")>>],
     \* TestSimpleWithSingleTableAndAliasField, with an omitted field
     AliasField |->
        [Name |-> "Results",
         Fields |-> <<Scalar("UserId", "userId"), Scalar("Name", "name"),
                      Scalar("CreatedAt", "createdAt;omit=true")>>]]

RecordNames == DOMAIN RecordTypes

\* the longest SELECT list of the SQL texts
MaxCols == 2

\* the passes of Parse over its own output
MaxPasses == 2

\* the columns a SELECT list is written from, in the order they are listed
ColumnItems ==
    <<"*", "User.*", "User.id", "User.name", "Account.id", "id",
      "User.idx", "accountid", "User.id as userId",
      "COALESCE(User.name, 'x') as name">>

RECURSIVE ColumnLists(_, _)
\* the lists of n column items taken from ColumnItems[from..] in order
ColumnLists(n, from) ==
    IF n = 0 THEN {<<>>}
    ELSE UNION {{<<ColumnItems[c]>> \o l : l \in ColumnLists(n - 1, c + 1)} :
                c \in from..Len(ColumnItems)}

SelectLists == UNION {{Join(l, ", ") : l \in ColumnLists(n, 1)} : n \in 1..MaxCols}

Heads == {"SELECT ", "INSERT INTO Log (id) select\n\t"}

Tails ==
    {" FROM User WHERE User.id = ?",
     "\nfrom (SELECT User.id,  User.createdAt FROM User) AS User"}

SqlTexts ==
    {h \o l \o t : h \in Heads, l \in SelectLists, t \in Tails}
    \cup {"INSERT INTO User (name, id, uuid) VALUES (?, ?, '123')", "SELECT 1",
          "SELECT User.* FROM User", "SELECT User.id, User.name FROM User",
          "SELECT Account.id as Id, Account.userId as UserId from Account",
          "SELECT User.idx FROM User"}

(***************************************************************************)
(* New, Generate and PrepareContext.  An error is the set of the sentinel  *)
(* errors it wraps (errors.Join, errors.Is); the nil error is the empty    *)
(* set.  text/template is modelled for the actions the templates use: a    *)
(* field of the data, {{ .name }}, and a call of a function without        *)
(* arguments, {{ name }}.                                                  *)
(***************************************************************************)

\* a nil pointer is the empty tuple, a pointer to v the tuple <<v>>
Nil == <<>>

\* the nil *sql.DB or *sql.Tx
NilHandle == "nil"

ErrNilQuery == "query is nil"
ErrNilStmt == "statement is nil"
ErrNilTemplate == "template is nil"
ErrPreparingQuery == "failed to prepare query"
ErrInvalidQueryable == "invalid queryable"
ErrExecutingQuery == "failed to execute query"
ErrParsingTemplate == "failed to parse template"
ErrInvalidType == "failed to create query type parameter is invalid"
ErrUnsupportedCTE == "unsupported CTEs in sql template"

\* errors of the template and sql packages, wrapped by the errors above
TemplateError == "template: error"
DriverError == "sql: error"

\* errors.Join
ErrorsJoin(a, b) == a \cup b

\* reflect.ValueOf(s).Kind() of the zero value of T
Kind(T) ==
    IF T \in DOMAIN RecordTypes THEN "struct"
    ELSE IF T = "any" THEN "invalid"
    ELSE IF T = "*User" THEN "ptr"
    ELSE "int"

\* the value of one action: a field of the data (missingkey=zero prints
\* <no value> for a key the data lacks) or the result of a function
EvalAction(action, funcs, data) ==
    IF HasPrefix(action, ".")
    THEN IF data # <<>> /\ SubSeq(action, 2, Len(action)) \in DOMAIN data[1]
         THEN [ok |-> TRUE, val |-> data[1][SubSeq(action, 2, Len(action))]]
         ELSE [ok |-> TRUE, val |-> "<no value>"]
    ELSE funcs[action]

\* the action that opens at a is well formed: it is closed, and a function
\* it calls is defined
ActionParses(text, a, close, funcs) ==
    /\ close > 0
    /\ \/ HasPrefix(TrimSpace(SubSeq(text, a + 2, a + close)), ".")
       \/ TrimSpace(SubSeq(text, a + 2, a + close)) \in DOMAIN funcs

RECURSIVE TemplateParse(_, _)
\* template.New(name).Funcs(funcs).Parse(text) returns no error
TemplateParseFrom(text, a, funcs) ==
    \/ a = 0
    \/ /\ ActionParses(text, a, Index(SubSeq(text, a + 2, Len(text)), "}}"), funcs)
       /\ TemplateParse(SubSeq(text, a + 3 + Index(SubSeq(text, a + 2, Len(text)), "}}"), Len(text)), funcs)

TemplateParse(text, funcs) == TemplateParseFrom(text, Index(text, "{{"), funcs)

RECURSIVE TemplateExecute(_, _, _)
\* the text before the action, its value, and the rest executed
ExecuteAction(text, a, close, val, rest) ==
    IF val.ok /\ rest.ok
    THEN [ok |-> TRUE, out |-> SubSeq(text, 1, a - 1) \o val.val \o rest.out]
    ELSE [ok |-> FALSE, out |-> ""]

ExecuteFrom(text, a, close, funcs, data) ==
    ExecuteAction(text, a, close,
                  EvalAction(TrimSpace(SubSeq(text, a + 2, a + close)), funcs, data),
                  TemplateExecute(SubSeq(text, a + close + 3, Len(text)), funcs, data))

\* template.Execute(&buf, data) of a parsed template
TemplateExecute(text, funcs, data) ==
    IF Index(text, "{{") = 0
    THEN [ok |-> TRUE, out |-> text]
    ELSE ExecuteFrom(text, Index(text, "{{"),
                     Index(SubSeq(text, Index(text, "{{") + 2, Len(text)), "}}"), funcs, data)

\* New with the CTE test in front of the test of T's kind
NewCTEFirst(T, sqlTemplate, funcs) ==
    IF HasPrefix(TrimSpace(sqlTemplate), "WITH")
    THEN [query |-> Nil, err |-> {ErrUnsupportedCTE}]
    ELSE IF Kind(T) # "struct"
    THEN [query |-> Nil, err |-> {ErrInvalidType}]
    ELSE IF ~TemplateParse(sqlTemplate, funcs)
    THEN [query |-> Nil, err |-> {ErrParsingTemplate, TemplateError}]
    ELSE [query |-> <<[template |-> <<[text |-> sqlTemplate, funcs |-> funcs]>>]>>, err |-> {}]

\* New[T](sqlTemplate, maybeFunctions...): the query template and the error
New(T, sqlTemplate, funcs) ==
    IF Kind(T) # "struct"
    THEN [query |-> Nil, err |-> {ErrInvalidType}]
    ELSE IF HasPrefix(TrimSpace(sqlTemplate), "WITH")
    THEN [query |-> Nil, err |-> {ErrUnsupportedCTE}]
    ELSE IF ~TemplateParse(sqlTemplate, funcs)
    THEN [query |-> Nil, err |-> {ErrParsingTemplate, TemplateError}]
    ELSE [query |-> <<[template |-> <<[text |-> sqlTemplate, funcs |-> funcs]>>]>>, err |-> {}]

\* Generate(query, data...): the generated SQL and the error
Generated(executed) ==
    IF executed.ok
    THEN [sql |-> executed.out, err |-> {}]
    ELSE [sql |-> "", err |-> ErrorsJoin({ErrPreparingQuery}, {TemplateError})]

Generate(query, data) ==
    IF query = Nil
    THEN [sql |-> "", err |-> {ErrNilQuery}]
    ELSE Generated(TemplateExecute(query[1].template[1].text, query[1].template[1].funcs, data))

\* the statement, the error and the SQL texts sent to the database's
\* PrepareContext, once the SQL is generated and parsed
Prepared(query, parsed, driverOk) ==
    IF driverOk
    THEN [stmt |-> <<[template |-> query, indices |-> parsed.indices,
                      SQL |-> parsed.sql, prepared |-> "stmt"]>>,
          err |-> {}, sent |-> <<parsed.sql>>]
    ELSE [stmt |-> Nil, err |-> ErrorsJoin({ErrPreparingQuery}, {DriverError}),
          sent |-> <<parsed.sql>>]

PrepareGenerated(T, query, gen, driverOk) ==
    IF gen.err # {}
    THEN [stmt |-> Nil, err |-> ErrorsJoin({ErrPreparingQuery}, gen.err), sent |-> <<>>]
    ELSE Prepared(query, Parse(RecordTypes[T], gen.sql), driverOk)

\* PrepareContext with the test of the handle in front of the tests of the
\* query
PrepareContextHandleFirst(T, query, txOrDb, data, driverOk) ==
    IF txOrDb = NilHandle
    THEN [stmt |-> Nil, err |-> ErrorsJoin({ErrPreparingQuery}, {ErrPreparingQuery}), sent |-> <<>>]
    ELSE IF query = Nil
    THEN [stmt |-> Nil, err |-> ErrorsJoin({ErrPreparingQuery}, {ErrNilQuery}), sent |-> <<>>]
    ELSE IF query[1].template = Nil
    THEN [stmt |-> Nil, err |-> ErrorsJoin({ErrPreparingQuery}, {ErrNilTemplate}), sent |-> <<>>]
    ELSE PrepareGenerated(T, query, Generate(query, data), driverOk)

\* PrepareContext(query, ctx, txOrDb, data...); Q is *sql.DB or *sql.Tx, so
\* the type switch always finds one of its two cases
PrepareContext(T, query, txOrDb, data, driverOk) ==
    IF query = Nil
    THEN [stmt |-> Nil, err |-> ErrorsJoin({ErrPreparingQuery}, {ErrNilQuery}), sent |-> <<>>]
    ELSE IF query[1].template = Nil
    THEN [stmt |-> Nil, err |-> ErrorsJoin({ErrPreparingQuery}, {ErrNilTemplate}), sent |-> <<>>]
    ELSE IF txOrDb = NilHandle
    THEN [stmt |-> Nil, err |-> ErrorsJoin({ErrPreparingQuery}, {ErrPreparingQuery}), sent |-> <<>>]
    ELSE PrepareGenerated(T, query, Generate(query, data), driverOk)

\* QueryStmt.QueryContext on the statement PrepareContext returned: the
\* fields are bound by the plan, then the rows are queried and scanned
StmtQueryContext(st, rows) ==
    [err |-> IF rows = "ok" THEN {} ELSE ErrorsJoin({ErrExecutingQuery}, {DriverError}),
     dest |-> [k \in 1..Len(st[1].indices) |-> st[1].indices[k]]]

\* QueryContext(query, ctx, txOrDb, data...) once PrepareContext returned
QueryPrepared(prep, rows) ==
    IF prep.err # {}
    THEN [stmt |-> Nil, err |-> ErrorsJoin({ErrExecutingQuery}, prep.err),
          sent |-> prep.sent, dest |-> <<>>]
    ELSE [stmt |-> prep.stmt, err |-> StmtQueryContext(prep.stmt, rows).err,
          sent |-> prep.sent, dest |-> StmtQueryContext(prep.stmt, rows).dest]

\* Query and QueryContext of a query template: PrepareContext is called
\* without the data
QueryContext(T, query, txOrDb, driverOk, rows) ==
    IF query = Nil
    THEN [stmt |-> Nil, err |-> ErrorsJoin({ErrExecutingQuery}, {ErrNilQuery}),
          sent |-> <<>>, dest |-> <<>>]
    ELSE QueryPrepared(PrepareContext(T, query, txOrDb, <<>>, driverOk), rows)

(***************************************************************************)
(* The type parameters, templates, functions and data New and              *)
(* PrepareContext are called with                                          *)
(***************************************************************************)

TypeParams == {"User", "UserAccount", "any", "int", "*User"}

SqlTemplates ==
    {"SELECT * FROM User WHERE User.id = ?",
     "WITH u AS (SELECT User.id FROM User) SELECT * FROM u",
     " \n\tWITH u AS (SELECT User.id FROM User) SELECT * FROM u",
     "with u as (SELECT User.id FROM User) SELECT * FROM u",
     "WITH u AS (SELECT {{ uuid }} FROM User) SELECT * FROM u",
     "SELECT {{ uuid }} FROM User",
     "SELECT {{ .Select }} FROM User",
     "SELECT User.id FROM User WHERE User.name = {{ fail }}",
     "SELECT User.id FROM {{ .Table"}

NoFunctions == [name \in {} |-> [ok |-> TRUE, val |-> ""]]

\* uuid returns a text, fail returns an error
SomeFunctions ==
    [name \in {"uuid", "fail"} |->
        IF name = "uuid" THEN [ok |-> TRUE, val |-> "'123'"] ELSE [ok |-> FALSE, val |-> ""]]

FunctionMaps == {NoFunctions, SomeFunctions}

DataArgs == {<<>>, <<[Select |-> "User.id, User.name"]>>}

\* the queries a caller can hand to PrepareContext: what New returned, a
\* nil query, and a query without a template
QueryArgs(q) == {q, Nil, <<[template |-> Nil]>>}

Handles == {NilHandle, "db", "tx"}

(***************************************************************************)
(* Package sqlfmt: Quote and the classifiers of issimple and needsutf8.    *)
(* A Go string is the tuple of its bytes, numbers in 0..255; s[i] of the   *)
(* source is s[i + 1] here.  A classifier returns "true" or "false", or    *)
(* "panic" when an index runs out of range.                                *)
(***************************************************************************)

\* chk without the case of the underscore
chkNoUnderscore(b) ==
    IF b < 32 \/ b > 126
    THEN 0
    ELSE IF b \in {39, 92, 7, 8, 12, 10, 13, 9, 11, 0, 26, 37}
    THEN 0
    ELSE 1

\* issimple.chk
chk(b) ==
    IF b < 32 \/ b > 126
    THEN 0
    ELSE IF b \in {39, 92, 7, 8, 12, 10, 13, 9, 11, 0, 26, 37, 95}
    THEN 0
    ELSE 1

\* s[from:] of the source
SliceFrom(s, from) == SubSeq(s, from + 1, Len(s))

\* s[:to] of the source
SliceTo(s, to) == SubSeq(s, 1, to)

\* issimple.Naive
issimpleNaive(s) ==
    IF \E i \in 0..(Len(s) - 1) : chk(s[i + 1]) = 0 THEN "false" ELSE "true"

\* chk(s[i])|chk(s[i+1])<<1|...|chk(s[i+width-1])<<(width-1): every chk has
\* a bit of its own, so the word is zero iff every chk is
ChkWord(s, i, width) ==
    IF \E k \in 0..(width - 1) : chk(s[i + k + 1]) # 0 THEN 1 ELSE 0

\* b is a continuation byte of UTF-8 within lo..hi
Continues(s, i, lo, hi) == i < Len(s) /\ s[i + 1] >= lo /\ s[i + 1] <= hi

\* the width of the rune the range loop decodes at index i: 1 for ASCII and
\* for a byte that starts no valid encoding
RuneWidth(s, i) ==
    IF s[i + 1] >= 194 /\ s[i + 1] <= 223 /\ Continues(s, i + 1, 128, 191)
    THEN 2
    ELSE IF /\ s[i + 1] >= 224 /\ s[i + 1] <= 239
            /\ Continues(s, i + 1, IF s[i + 1] = 224 THEN 160 ELSE 128,
                                   IF s[i + 1] = 237 THEN 159 ELSE 191)
            /\ Continues(s, i + 2, 128, 191)
    THEN 3
    ELSE IF /\ s[i + 1] >= 240 /\ s[i + 1] <= 244
            /\ Continues(s, i + 1, IF s[i + 1] = 240 THEN 144 ELSE 128,
                                   IF s[i + 1] = 244 THEN 143 ELSE 191)
            /\ Continues(s, i + 2, 128, 191)
            /\ Continues(s, i + 3, 128, 191)
    THEN 4
    ELSE 1

RECURSIVE Unroll16Loop(_, _)
\* the loop for i := range s of issimple.Unroll16, from index i on; i steps
\* from rune to rune
Unroll16Loop(s, i) ==
    IF i >= Len(s) THEN "true"
    ELSE IF i + 15 >= Len(s) THEN "panic"
    ELSE IF ChkWord(s, i, 16) # 0 THEN "false"
    ELSE Unroll16Loop(s, i + RuneWidth(s, i))

\* issimple.Unroll16; off is len(s) & 15
issimpleUnroll16(s) ==
    IF \E i \in (Len(s) - (Len(s) % 16))..(Len(s) - 1) : chk(s[i + 1]) = 0
    THEN "false"
    ELSE IF Len(s) = Len(s) % 16
    THEN "true"
    ELSE Unroll16Loop(SliceFrom(s, Len(s) % 16), 0)

RECURSIVE Unroll64Loop(_, _)
\* the loop for i := 0; i < len(s); i += 64 of issimple.Unroll64
Unroll64Loop(s, i) ==
    IF i >= Len(s) THEN "true"
    ELSE IF i + 63 >= Len(s) THEN "panic"
    ELSE IF ChkWord(s, i, 64) = 0 THEN "false"
    ELSE Unroll64Loop(s, i + 64)

\* issimple.Unroll64 once Unroll16(s[:off]) has returned head
Unroll64After(s, head) ==
    IF head = "panic" THEN "panic"
    ELSE IF head = "false" THEN "false"
    ELSE IF Len(s) = Len(s) % 64 THEN "true"
    ELSE Unroll64Loop(SliceFrom(s, Len(s) % 64), 0)

\* issimple.Unroll64; off is len(s) & 63
issimpleUnroll64(s) == Unroll64After(s, issimpleUnroll16(SliceTo(s, Len(s) % 64)))

\* needsutf8.Naive
needsutf8Naive(s) ==
    IF \E i \in 0..(Len(s) - 1) : s[i + 1] >= 128 THEN "true" ELSE "false"

\* (u0|u1|...)&0x8080808080808080 != 0 for the words packed from the width
\* bytes at i: each byte has a lane of its own in its word, so the mask
\* finds a bit iff some byte has bit 7 set
HighBitWord(s, i, width) ==
    IF \E k \in 0..(width - 1) : s[i + k + 1] >= 128 THEN "true" ELSE "false"

\* the body shared by Unroll8, Unroll16 and Unroll32 of needsutf8: the last
\* off bytes one by one, then the loop over the words, which returns in its
\* first iteration
UnrollHighBit(s, width) ==
    IF \E i \in (Len(s) - (Len(s) % width))..(Len(s) - 1) : s[i + 1] >= 128
    THEN "true"
    ELSE IF 0 < Len(s) - (Len(s) % width)
    THEN HighBitWord(s, 0, width)
    ELSE "false"

\* needsutf8.Unroll8
needsutf8Unroll8(s) == UnrollHighBit(s, 8)

\* needsutf8.Unroll16
needsutf8Unroll16(s) == UnrollHighBit(s, 16)

\* needsutf8.Unroll32
needsutf8Unroll32(s) == UnrollHighBit(s, 32)

\* sqlfmt.IsSimple
IsSimple(s) == issimpleUnroll16(s)

\* sqlfmt.NeedsUTF8
NeedsUTF8(s) == needsutf8Unroll8(s)

\* the bytes of "utf8mb4"
Utf8mb4 == <<117, 116, 102, 56, 109, 98, 52>>

\* Quote without the case of the percent sign
EscapeNoPercent(b) ==
    IF b = 7 THEN <<92, 97>>
    ELSE IF b = 8 THEN <<92, 98>>
    ELSE IF b = 12 THEN <<92, 102>>
    ELSE IF b = 10 THEN <<92, 110>>
    ELSE IF b = 13 THEN <<92, 114>>
    ELSE IF b = 9 THEN <<92, 116>>
    ELSE IF b = 11 THEN <<92, 118>>
    ELSE IF b = 92 THEN <<92, 92>>
    ELSE IF b = 39 THEN <<92, 39>>
    ELSE IF b = 0 THEN <<92, 48>>
    ELSE IF b = 26 THEN <<92, 90>>
    ELSE IF b = 95 THEN <<92, 95>>
    ELSE <<b>>

\* the switch of Quote: the bytes appended for the byte b
Escape(b) ==
    IF b = 7 THEN <<92, 97>>
    ELSE IF b = 8 THEN <<92, 98>>
    ELSE IF b = 12 THEN <<92, 102>>
    ELSE IF b = 10 THEN <<92, 110>>
    ELSE IF b = 13 THEN <<92, 114>>
    ELSE IF b = 9 THEN <<92, 116>>
    ELSE IF b = 11 THEN <<92, 118>>
    ELSE IF b = 92 THEN <<92, 92>>
    ELSE IF b = 39 THEN <<92, 39>>
    ELSE IF b = 0 THEN <<92, 48>>
    ELSE IF b = 26 THEN <<92, 90>>
    ELSE IF b = 37 THEN <<92, 37>>
    ELSE IF b = 95 THEN <<92, 95>>
    ELSE <<b>>

RECURSIVE QuoteLoopKeepsBackslash(_, _, _)
\* QuoteLoop that copies a backslash as it is
QuoteLoopKeepsBackslash(scratch, s, i) ==
    IF i >= Len(s) THEN scratch
    ELSE QuoteLoopKeepsBackslash(
             scratch \o (IF s[i + 1] = 92 THEN <<92>> ELSE Escape(s[i + 1])), s, i + 1)

RECURSIVE QuoteLoop(_, _, _)
\* the loop of Quote over the bytes of s, from index i on
QuoteLoop(scratch, s, i) ==
    IF i >= Len(s) THEN scratch
    ELSE QuoteLoop(scratch \o Escape(s[i + 1]), s, i + 1)

\* Quote once NeedsUTF8(s) has returned utf8
\* whatever the caller's buffer holds is cut off first (scratch[:0])
QuoteMarked(scratch, s, utf8) ==
    QuoteLoop(SubSeq(scratch, 1, 0)
              \o (IF utf8 = "true" THEN Utf8mb4 ELSE <<>>) \o <<39>>, s, 0) \o <<39>>

\* sqlfmt.Quote(scratch, s), scratch being the bytes the caller's buffer holds
Quote(scratch, s) == QuoteMarked(scratch, s, NeedsUTF8(s))

\* QuoteIfNeeded once IsSimple(s) has returned simple; a panic of IsSimple
\* ends the call
QuoteIfSimple(scratch, s, simple) ==
    IF simple = "panic" THEN <<>>
    ELSE IF simple = "true" THEN scratch \o <<39>> \o s \o <<39>>
    ELSE Quote(scratch, s)

\* sqlfmt.QuoteIfNeeded(scratch, s)
QuoteIfNeeded(scratch, s) == QuoteIfSimple(scratch, s, IsSimple(s))

(***************************************************************************)
(* The byte strings the classifiers and Quote are run on: every string of  *)
(* up to two of the bytes Quote tells apart, and the strings of the        *)
(* benchmarks: a run of one byte with another byte put in at some place.   *)
(***************************************************************************)

MaxLen == 17

\* the bytes Quote escapes, the ends of the printable range, and bytes with
\* the high bit set
SpecialBytes == {0, 7, 8, 9, 10, 11, 12, 13, 26, 31, 32, 37, 39, 92, 95, 97, 126, 127, 128, 240, 255}

\* n bytes fill with c at index p
Smear(n, fill, p, c) == [i \in 1..n |-> IF i = p + 1 THEN c ELSE fill]

ShortStrings ==
    {<<>>} \cup {<<a>> : a \in SpecialBytes} \cup {<<a, b>> : a \in SpecialBytes, b \in SpecialBytes}

SmearStrings ==
    {Smear(n, fill, p, c) : n \in 3..MaxLen, fill \in {97, 39}, p \in 0..(MaxLen - 1),
                            c \in {0, 10, 37, 39, 97, 128}}

LongStrings ==
    {Smear(n, 97, p, c) : n \in {32, 64, 65}, p \in {0, 8, 16, 31, 32, 63, 64}, c \in {39, 97, 128}}
    \cup {<<240, 159, 148, 165, 240, 159, 148, 165, 240, 159, 148, 165, 240, 159, 148, 165>>}

ByteStrings == ShortStrings \cup SmearStrings \cup LongStrings

\* the bytes of the buffer the caller hands to Quote and QuoteIfNeeded: none
\* (a nil or an empty buffer), or the literal 'a' of an earlier call
ScratchBuffers == {<<>>, <<39, 97, 39>>}

(***************************************************************************)
(* The methods of a QueryStmt.  tql.go holds two variants of the package,  *)
(* one behind the other.  In the first (lines 1-705) the methods test      *)
(* their receiver and PrepareContext registers nothing; in the second      *)
(* (lines 706-1083) PrepareContext registers Close with context.AfterFunc  *)
(* and only Close tests its receiver.  The registered function runs in a   *)
(* goroutine of its own and query.prepared is read and written without a   *)
(* lock, so a method is run in steps, one per read or write of the field:  *)
(* "entry" (the tests at its top), "close" (query.prepared.Close()),       *)
(* "clear" (query.prepared = nil), "use" (query.prepared.ExecContext or    *)
(* QueryContext), and it ends in "return" or, on a nil pointer, "panic".   *)
(* A closed *sql.Stmt returns an error without going to the database.      *)
(***************************************************************************)

Variants == {"first", "second"}

\* the methods the caller calls on one statement
MaxCalls == 3

\* the query and the record of the statement the methods are called on: the
\* table User with its omit list, for which both variants of New and Parse
\* give the same SQL text and scan plan
StmtTemplate == "SELECT User.id, User.name FROM User WHERE User.id = ?"

\* what a step of a method leaves: where the method stands, the error it
\* returns, the QueryStmt, and the counts of the database's statement
Outcome(pc, e, st, nClosed, nUsed) ==
    [pc |-> pc, err |-> e, stmt |-> st, closes |-> nClosed, used |-> nUsed]

\* Close that closes the prepared statement without testing it for nil
CloseNextUnguarded(pc, st, nClosed, nUsed) ==
    IF pc = "entry"
    THEN IF st = Nil THEN Outcome("return", {ErrNilQuery}, st, nClosed, nUsed)
         ELSE Outcome("close", {}, st, nClosed, nUsed)
    ELSE IF pc = "close"
    THEN IF st[1].prepared = NilHandle THEN Outcome("panic", {}, st, nClosed, nUsed)
         ELSE Outcome("clear", {}, st, nClosed + 1, nUsed)
    ELSE Outcome("return", {}, <<[st[1] EXCEPT !.prepared = NilHandle]>>, nClosed, nUsed)

\* QueryStmt.Close, the same in both variants
CloseNext(pc, st, nClosed, nUsed) ==
    IF pc = "entry"
    THEN IF st = Nil THEN Outcome("return", {ErrNilQuery}, st, nClosed, nUsed)
         ELSE IF st[1].prepared # NilHandle THEN Outcome("close", {}, st, nClosed, nUsed)
         ELSE Outcome("return", {}, st, nClosed, nUsed)
    ELSE IF pc = "close"
    THEN IF st[1].prepared = NilHandle THEN Outcome("panic", {}, st, nClosed, nUsed)
         ELSE Outcome("clear", {}, st, nClosed + 1, nUsed)
    ELSE Outcome("return", {}, <<[st[1] EXCEPT !.prepared = NilHandle]>>, nClosed, nUsed)

\* QueryStmt.ExecContext: the second variant reads query.prepared of a nil
\* receiver
ExecContextNext(v, pc, st, nClosed, nUsed, driverOk) ==
    IF pc = "entry"
    THEN IF st = Nil
         THEN IF v = "first" THEN Outcome("return", {ErrNilQuery}, st, nClosed, nUsed)
              ELSE Outcome("panic", {}, st, nClosed, nUsed)
         ELSE IF st[1].prepared = NilHandle
         THEN Outcome("return", {ErrNilStmt}, st, nClosed, nUsed)
         ELSE Outcome("use", {}, st, nClosed, nUsed)
    ELSE IF st[1].prepared = NilHandle THEN Outcome("panic", {}, st, nClosed, nUsed)
    ELSE IF nClosed > 0 THEN Outcome("return", {DriverError}, st, nClosed, nUsed)
    ELSE Outcome("return", IF driverOk THEN {} ELSE {DriverError}, st, nClosed, nUsed + 1)

\* QueryStmt.Exec: ExecContext with the background context, in the first
\* variant behind a test of the receiver
ExecNext(v, pc, st, nClosed, nUsed, driverOk) ==
    IF v = "first" /\ pc = "entry" /\ st = Nil
    THEN Outcome("return", {ErrNilQuery}, st, nClosed, nUsed)
    ELSE ExecContextNext(v, pc, st, nClosed, nUsed, driverOk)

\* QueryStmt.QueryContext: the fields are bound by query.indices, then
\* query.prepared is queried, in neither variant tested for nil
QueryContextNext(v, pc, st, nClosed, nUsed, rows) ==
    IF pc = "entry"
    THEN IF st = Nil
         THEN IF v = "first" THEN Outcome("return", {ErrNilQuery}, st, nClosed, nUsed)
              ELSE Outcome("panic", {}, st, nClosed, nUsed)
         ELSE Outcome("use", {}, st, nClosed, nUsed)
    ELSE IF st[1].prepared = NilHandle THEN Outcome("panic", {}, st, nClosed, nUsed)
    ELSE IF nClosed > 0
    THEN Outcome("return", ErrorsJoin({ErrExecutingQuery}, {DriverError}), st, nClosed, nUsed)
    ELSE Outcome("return", StmtQueryContext(st, rows).err, st, nClosed, nUsed + 1)

\* QueryStmt.Query: QueryContext with the background context, in the first
\* variant behind a test of the receiver
QueryNext(v, pc, st, nClosed, nUsed, rows) ==
    IF v = "first" /\ pc = "entry" /\ st = Nil
    THEN Outcome("return", {ErrNilQuery}, st, nClosed, nUsed)
    ELSE QueryContextNext(v, pc, st, nClosed, nUsed, rows)

\* what PrepareContext registers with context.AfterFunc for the statement
\* it returns
AfterFuncOf(v, st) == IF v = "second" /\ st # Nil THEN "registered" ELSE "none"

(***************************************************************************)
(* The state machine.  A run goes through one entry point.  Parse: a       *)
(* record type and a SQL text are chosen, Parse is run on the text and     *)
(* then on its own output, and QueryContext binds the columns of a row to  *)
(* the fields the scan plan addresses.  New: a type parameter, a template  *)
(* and functions are chosen, New is called, and PrepareContext or          *)
(* QueryContext is called with the query.  Quote: a byte string is chosen, *)
(* the classifiers are called on it, then Quote and QuoteIfNeeded.  Stmt:   *)
(* a variant of the package is chosen, a statement is prepared with New    *)
(* and PrepareContext, the caller calls up to MaxCalls methods on what     *)
(* PrepareContext returned, one after the other, and the context may be    *)
(* cancelled at any time, which starts the function the second variant     *)
(* registered.  A panic ends the run.                                      *)
(***************************************************************************)

NoArgs == [query |-> Nil, txOrDb |-> NilHandle, data |-> <<>>]

ApiIdle ==
    /\ queryTemplate = Nil
    /\ called = <<>>
    /\ args = NoArgs
    /\ statement = Nil
    /\ err = {}
    /\ sent = <<>>

InitParse ==
    /\ entry = "Parse"
    /\ recType \in RecordNames
    /\ sqlIn \in SqlTexts
    /\ typeParam = recType
    /\ templateText = ""
    /\ functions = NoFunctions
    /\ str = <<>>
    /\ scratchBuf = <<>>

InitNew ==
    /\ entry = "New"
    /\ recType = "User"
    /\ sqlIn = ""
    /\ typeParam \in TypeParams
    /\ templateText \in SqlTemplates
    /\ functions \in FunctionMaps
    /\ str = <<>>
    /\ scratchBuf = <<>>

InitStmt ==
    /\ entry = "Stmt"
    /\ recType = "UserOmit"
    /\ sqlIn = ""
    /\ typeParam = recType
    /\ templateText = StmtTemplate
    /\ functions = NoFunctions
    /\ str = <<>>
    /\ scratchBuf = <<>>
    /\ variant \in Variants

InitQuote ==
    /\ entry = "Quote"
    /\ recType = "User"
    /\ sqlIn = ""
    /\ typeParam = recType
    /\ templateText = ""
    /\ functions = NoFunctions
    /\ str \in ByteStrings
    /\ scratchBuf \in ScratchBuffers
    /\ scratchBuf = <<>> \/ str \in ShortStrings

NotClassified == [Naive |-> "", Unroll8 |-> "", Unroll16 |-> "", Unroll32 |-> "", Unroll64 |-> ""]

QuoteIdle ==
    /\ isSimple = NotClassified
    /\ needsUTF8 = NotClassified
    /\ quoted = <<>>
    /\ quotedIfNeeded = <<>>

\* no method of the statement is running
Idle ==
    [op |-> "", pc |-> "idle", afterClose |-> FALSE, startedOpen |-> FALSE,
     before |-> Nil, closesBefore |-> 0]

\* no method of the statement has ended
NoCall ==
    [op |-> "", err |-> {}, panicked |-> FALSE, touched |-> FALSE, afterClose |-> FALSE,
     startedOpen |-> FALSE, before |-> Nil, closesBefore |-> 0]

StmtIdle ==
    /\ closes = 0
    /\ used = 0
    /\ ctxDone = FALSE
    /\ afterFunc = "none"
    /\ call = Idle
    /\ last = NoCall
    /\ calls = 0
    /\ closed = FALSE

Init ==
    /\ \/ (InitParse \/ InitNew \/ InitQuote) /\ variant = "first"
       \/ InitStmt
    /\ ApiIdle
    /\ QuoteIdle
    /\ StmtIdle
    /\ sql = sqlIn
    /\ indices = <<>>
    /\ selectMatches = <<>>
    /\ selectedFields = <<>>
    /\ pass = 0
    /\ prevSql = sqlIn
    /\ prevIndices = <<>>
    /\ dest = <<>>

\* Parse[T](sql) on the text at hand: first the input, then its own output
ParseStep ==
    /\ entry = "Parse"
    /\ pass < MaxPasses
    /\ dest = <<>>
    /\ \E r \in {Parse(RecordTypes[recType], sql)} :
          /\ sql' = r.sql
          /\ indices' = r.indices
          /\ selectMatches' = r.matches
          /\ selectedFields' = r.selectedFields
    /\ prevSql' = sql
    /\ prevIndices' = indices
    /\ pass' = pass + 1
    /\ UNCHANGED <<recType, sqlIn, dest, entry, apiVars, quoteVars, stmtVars>>

\* QueryStmt.QueryContext: column k of the row goes to the field at
\* indices[k]; dest lists, per column, the field it is written to
QueryContextStep ==
    /\ pass >= 1
    /\ dest = <<>>
    /\ indices # <<>>
    /\ dest' = [k \in 1..Len(indices) |-> indices[k]]
    /\ UNCHANGED <<parseVars, entry, apiVars, quoteVars, stmtVars>>

\* New[T](templateText, functions)
NewStep ==
    /\ entry \in {"New", "Stmt"}
    /\ called = <<>>
    /\ \E r \in {New(typeParam, templateText, functions)} :
          /\ queryTemplate' = r.query
          /\ err' = r.err
    /\ called' = <<"New">>
    /\ UNCHANGED <<parseVars, dest, entry, typeParam, templateText, functions, args, statement, sent, quoteVars, stmtVars>>

\* PrepareContext(q, ctx, txOrDb, data...) with the query New returned, a nil
\* query or a query without a template; the database's PrepareContext
\* succeeds or fails
PrepareContextStep ==
    /\ entry = "New"
    /\ called = <<"New">>
    /\ \E q \in QueryArgs(queryTemplate), txOrDb \in Handles, data \in DataArgs, driverOk \in BOOLEAN :
          /\ args' = [query |-> q, txOrDb |-> txOrDb, data |-> data]
          /\ \E r \in {PrepareContext(typeParam, q, txOrDb, data, driverOk)} :
                /\ statement' = r.stmt
                /\ err' = r.err
                /\ sent' = r.sent
    /\ called' = Append(called, "PrepareContext")
    /\ UNCHANGED <<parseVars, dest, entry, typeParam, templateText, functions, queryTemplate, quoteVars, stmtVars>>

\* Query(q, txOrDb, data...) and QueryContext(q, ctx, txOrDb, data...)
QueryStep ==
    /\ entry = "New"
    /\ called = <<"New">>
    /\ \E q \in QueryArgs(queryTemplate), txOrDb \in Handles, data \in DataArgs, driverOk \in BOOLEAN,
          rows \in {"ok", "query error", "scan error"} :
          /\ args' = [query |-> q, txOrDb |-> txOrDb, data |-> data]
          /\ \E r \in {QueryContext(typeParam, q, txOrDb, driverOk, rows)} :
                /\ statement' = r.stmt
                /\ err' = r.err
                /\ sent' = r.sent
                /\ dest' = r.dest
    /\ called' = Append(called, "QueryContext")
    /\ UNCHANGED <<parseVars, entry, typeParam, templateText, functions, queryTemplate, quoteVars, stmtVars>>

\* issimple.Naive, Unroll16 and Unroll64 on the string
IsSimpleStep ==
    /\ entry = "Quote"
    /\ called = <<>>
    /\ isSimple' = [NotClassified EXCEPT !.Naive = issimpleNaive(str),
                                         !.Unroll16 = issimpleUnroll16(str),
                                         !.Unroll64 = issimpleUnroll64(str)]
    /\ called' = Append(called, "IsSimple")
    /\ UNCHANGED <<parseVars, dest, entry, typeParam, templateText, functions, queryTemplate,
                   args, statement, err, sent, str, scratchBuf, needsUTF8, quoted, quotedIfNeeded, stmtVars>>

\* needsutf8.Naive, Unroll8, Unroll16 and Unroll32 on the string
NeedsUTF8Step ==
    /\ entry = "Quote"
    /\ called = <<"IsSimple">>
    /\ needsUTF8' = [NotClassified EXCEPT !.Naive = needsutf8Naive(str),
                                          !.Unroll8 = needsutf8Unroll8(str),
                                          !.Unroll16 = needsutf8Unroll16(str),
                                          !.Unroll32 = needsutf8Unroll32(str)]
    /\ called' = Append(called, "NeedsUTF8")
    /\ UNCHANGED <<parseVars, dest, entry, typeParam, templateText, functions, queryTemplate,
                   args, statement, err, sent, str, scratchBuf, isSimple, quoted, quotedIfNeeded, stmtVars>>

\* Quote(scratchBuf, str)
QuoteStep ==
    /\ entry = "Quote"
    /\ called = <<"IsSimple", "NeedsUTF8">>
    /\ quoted' = Quote(scratchBuf, str)
    /\ called' = Append(called, "Quote")
    /\ UNCHANGED <<parseVars, dest, entry, typeParam, templateText, functions, queryTemplate,
                   args, statement, err, sent, str, scratchBuf, isSimple, needsUTF8, quotedIfNeeded, stmtVars>>

\* QuoteIfNeeded(scratchBuf, str); nothing is returned when IsSimple panics
QuoteIfNeededStep ==
    /\ entry = "Quote"
    /\ called = <<"IsSimple", "NeedsUTF8", "Quote">>
    /\ quotedIfNeeded' = QuoteIfNeeded(scratchBuf, str)
    /\ called' = Append(called, "QuoteIfNeeded")
    /\ UNCHANGED <<parseVars, dest, entry, typeParam, templateText, functions, queryTemplate,
                   args, statement, err, sent, str, scratchBuf, isSimple, needsUTF8, quoted, stmtVars>>

\* PrepareContext(query, ctx, db) with the query New returned; the second
\* variant registers the statement's Close with context.AfterFunc
PrepareStmtStep ==
    /\ entry = "Stmt"
    /\ called = <<"New">>
    /\ \E driverOk \in BOOLEAN :
          /\ args' = [query |-> queryTemplate, txOrDb |-> "db", data |-> <<>>]
          /\ \E r \in {PrepareContext(typeParam, queryTemplate, "db", <<>>, driverOk)} :
                /\ statement' = r.stmt
                /\ err' = r.err
                /\ sent' = r.sent
                /\ afterFunc' = AfterFuncOf(variant, r.stmt)
    /\ called' = Append(called, "PrepareContext")
    /\ UNCHANGED <<parseVars, dest, entry, typeParam, templateText, functions, queryTemplate,
                   quoteVars, variant, closes, used, ctxDone, call, last, calls, closed>>

\* no goroutine has panicked
Alive == call.pc # "panic" /\ afterFunc # "panic"

\* the context is cancelled: the registered function is started in a
\* goroutine of its own
CancelStep ==
    /\ entry = "Stmt"
    /\ Len(called) = 2
    /\ Alive
    /\ ~ctxDone
    /\ ctxDone' = TRUE
    /\ afterFunc' = IF afterFunc = "registered" THEN "entry" ELSE afterFunc
    /\ UNCHANGED <<parseVars, dest, entry, apiVars, quoteVars,
                   variant, closes, used, call, last, calls, closed>>

\* a step of queryStmt.Close() in the goroutine of the registered function
AfterFuncStep ==
    /\ entry = "Stmt"
    /\ Alive
    /\ afterFunc \in {"entry", "close", "clear"}
    /\ \E r \in {CloseNext(afterFunc, statement, closes, used)} :
          /\ statement' = r.stmt
          /\ closes' = r.closes
          /\ afterFunc' = IF r.pc = "return" THEN "done" ELSE r.pc
    /\ UNCHANGED <<parseVars, dest, entry, typeParam, templateText, functions, queryTemplate,
                   called, args, err, sent, quoteVars,
                   variant, used, ctxDone, call, last, calls, closed>>

\* the method the caller is in, or the method op at its entry
Running(op) ==
    IF call.pc = "idle"
    THEN [op |-> op, pc |-> "entry", afterClose |-> closed,
          startedOpen |-> (statement # Nil /\ statement[1].prepared # NilHandle),
          before |-> statement, closesBefore |-> closes]
    ELSE call

\* the caller may take a step of the method op: its first, when no method
\* is running, or its next
MayRun(op) ==
    /\ entry = "Stmt"
    /\ Len(called) = 2
    /\ Alive
    /\ \/ call.pc = "idle" /\ calls < MaxCalls
       \/ call.pc # "idle" /\ call.op = op

\* the step of the method op that leaves r
Took(op, r) ==
    /\ statement' = r.stmt
    /\ closes' = r.closes
    /\ used' = r.used
    /\ calls' = IF call.pc = "idle" THEN calls + 1 ELSE calls
    /\ IF r.pc \in {"return", "panic"}
       THEN /\ call' = IF r.pc = "panic" THEN [Idle EXCEPT !.op = op, !.pc = "panic"] ELSE Idle
            /\ last' = [op |-> op, err |-> r.err, panicked |-> (r.pc = "panic"),
                        touched |-> (r.used # used),
                        afterClose |-> Running(op).afterClose,
                        startedOpen |-> Running(op).startedOpen,
                        before |-> Running(op).before,
                        closesBefore |-> Running(op).closesBefore]
            /\ closed' = (closed \/ (op = "Close" /\ r.pc = "return" /\ r.err = {}))
       ELSE /\ call' = [Running(op) EXCEPT !.pc = r.pc]
            /\ last' = last
            /\ closed' = closed
    /\ UNCHANGED <<parseVars, dest, entry, typeParam, templateText, functions, queryTemplate,
                   called, args, err, sent, quoteVars, variant, ctxDone, afterFunc>>

\* a step of Close() called by the caller
StmtCloseStep ==
    /\ MayRun("Close")
    /\ Took("Close", CloseNext(Running("Close").pc, statement, closes, used))

\* a step of ExecContext(ctx, data...) called by the caller
StmtExecContextStep ==
    /\ MayRun("ExecContext")
    /\ \E driverOk \in BOOLEAN :
          Took("ExecContext",
               ExecContextNext(variant, Running("ExecContext").pc, statement, closes, used, driverOk))

\* a step of Exec(data...) called by the caller
StmtExecStep ==
    /\ MayRun("Exec")
    /\ \E driverOk \in BOOLEAN :
          Took("Exec", ExecNext(variant, Running("Exec").pc, statement, closes, used, driverOk))

\* a step of QueryContext(ctx, data...) called by the caller
StmtQueryContextStep ==
    /\ MayRun("QueryContext")
    /\ \E rows \in {"ok", "query error", "scan error"} :
          Took("QueryContext",
               QueryContextNext(variant, Running("QueryContext").pc, statement, closes, used, rows))

\* a step of Query(data...) called by the caller
StmtQueryStep ==
    /\ MayRun("Query")
    /\ \E rows \in {"ok", "query error", "scan error"} :
          Took("Query", QueryNext(variant, Running("Query").pc, statement, closes, used, rows))

Next ==
    \/ ParseStep \/ QueryContextStep
    \/ NewStep \/ PrepareContextStep \/ QueryStep
    \/ IsSimpleStep \/ NeedsUTF8Step \/ QuoteStep \/ QuoteIfNeededStep
    \/ PrepareStmtStep \/ CancelStep \/ AfterFuncStep
    \/ StmtCloseStep \/ StmtExecContextStep \/ StmtExecStep
    \/ StmtQueryContextStep \/ StmtQueryStep

Spec == Init /\ [][Next]_vars

\* the next step of the method the caller is in
CallerStep ==
    /\ call.pc # "idle"
    /\ \/ StmtCloseStep \/ StmtExecContextStep \/ StmtExecStep
       \/ StmtQueryContextStep \/ StmtQueryStep

\* goroutines are scheduled: the function that context.AfterFunc started
\* takes its steps, and a method the caller is in runs to its end.  Whether
\* the caller calls a further method, and whether the context is ever
\* cancelled, is left open.
FairSpec == Spec /\ WF_vars(AfterFuncStep) /\ WF_vars(CallerStep)

(***************************************************************************)
(* Properties                                                              *)
(***************************************************************************)

\* strings.HasSuffix
HasSuffix(s, suffix) ==
    Len(s) >= Len(suffix) /\ SubSeq(s, Len(s) - Len(suffix) + 1, Len(s)) = suffix

\* the field of T an index path addresses, as reflect's FieldByIndex finds it
FieldByIndex(T, path) ==
    IF Len(path) = 1 THEN T.Fields[path[1] + 1]
    ELSE T.Fields[path[1] + 1].Fields[path[2] + 1]

\* the column a field stands for: its tag name, behind the tag name of its
\* table and a dot when the field lies in an embedded table
ColumnOf(T, path) ==
    IF Len(path) = 1 THEN parseTQLTag(FieldByIndex(T, path)).field
    ELSE parseTQLTag(T.Fields[path[1] + 1]).field \o "."
         \o parseTQLTag(FieldByIndex(T, path)).field

\* a column of the list stands for the field at path: it is the field's
\* column, or an expression aliased to it
IsColumnOf(T, col, path) ==
    \/ TrimSpace(col) = ColumnOf(T, path)
    \/ HasSuffix(col, " as " \o ColumnOf(T, path))

\* the comma-separated columns of a SELECT list
ColumnsOf(list) == IF list = "" THEN <<>> ELSE Split(list, ",")

LeafOnly(T) == \A i \in 1..Len(T.Fields) : T.Fields[i].Kind # "struct"

\* some span holds a dotted reference: a dot between two word characters
DottedReference(spans) ==
    \E m \in 1..Len(spans) : \E p \in 2..(Len(spans[m]) - 1) :
        /\ At(spans[m], p) = "."
        /\ IsWordChar(At(spans[m], p - 1))
        /\ IsWordChar(At(spans[m], p + 1))

\* name is one of the names an omit list holds: it stands there with no word
\* character or dot next to it
Listed(list, name) ==
    \E p \in 1..(Len(list) - Len(name) + 1) :
        /\ SubSeq(list, p, p + Len(name) - 1) = name
        /\ p = 1 \/ (~IsWordChar(At(list, p - 1)) /\ At(list, p - 1) # ".")
        /\ LET q == p + Len(name)
           IN q > Len(list) \/ (~IsWordChar(At(list, q)) /\ At(list, q) # ".")

\* the 0-based positions of the fields that neither set omit=true in their own
\* tag nor are named, bare or behind prefix, in the omit list
KeptFields(fields, omitList, prefix) ==
    SelectSeq([j \in 1..Len(fields) |-> j - 1],
              LAMBDA x :
                 /\ parseTQLTag(fields[x + 1]).omit # "true"
                 /\ ~Listed(omitList, parseTQLTag(fields[x + 1]).field)
                 /\ ~Listed(omitList, prefix \o parseTQLTag(fields[x + 1]).field))

\* the first pass ran on a text that starts with SELECT and lists only "*"
SelectStar ==
    /\ pass = 1
    /\ FoldedAt(sqlIn, 1, "select", "SELECT")
    /\ selectMatches # <<>>
    /\ TrimSpace(selectMatches[1]) = "*"

\* the result of SELECT * on a leaf-only record: every kept field, in
\* declaration order, in the list, in the plan and in the text
StarResult ==
    LET T == RecordTypes[recType]
        kept == KeptFields(T.Fields, parseTQLTag(T.Fields[1]).omit, "")
        cols == [k \in 1..Len(kept) |-> parseTQLTag(T.Fields[kept[k] + 1]).field]
        star == Index(sqlIn, "*")
    IN /\ selectedFields = cols
       /\ indices = [k \in 1..Len(kept) |-> <<kept[k]>>]
       /\ sql = SubSeq(sqlIn, 1, star - 1) \o Join(cols, ", ")
                 \o SubSeq(sqlIn, star + 1, Len(sqlIn))

TwoTables(T) ==
    /\ Len(T.Fields) = 2
    /\ T.Fields[1].Kind = "struct"
    /\ T.Fields[2].Kind = "struct"

\* the word w stands in text at p, at the start of a word that no dot precedes
WordAt(text, p, w) ==
    /\ p + Len(w) - 1 <= Len(text)
    /\ SubSeq(text, p, p + Len(w) - 1) = w
    /\ p = 1 \/ (~IsWordChar(At(text, p - 1)) /\ At(text, p - 1) # ".")

\* the list names the field of table b: the name begins a word of the list,
\* or follows, one character on, the table name that begins a word
NamedBy(text, b, name) ==
    \E p \in 1..Len(text) :
        \/ WordAt(text, p, name)
        \/ /\ WordAt(text, p, b)
           /\ p + Len(b) + Len(name) <= Len(text)
           /\ At(text, p + Len(b)) # "\n"
           /\ SubSeq(text, p + Len(b) + 1, p + Len(b) + Len(name)) = name

\* the columns of the kept fields of a top-level table
TableColumns(T, i, kept) ==
    [k \in 1..Len(kept) |->
        parseTQLTag(T.Fields[i]).field \o "."
        \o parseTQLTag(T.Fields[i].Fields[kept[k] + 1]).field]

TablePaths(i, kept) == [k \in 1..Len(kept) |-> <<i - 1, kept[k]>>]

\* the kept fields of table A, all of them
KeptOfA(T) ==
    KeptFields(T.Fields[1].Fields, parseTQLTag(T.Fields[1]).omit,
               parseTQLTag(T.Fields[1]).field \o ".")

\* the kept fields of table B that are called id
IdOfB(T) ==
    SelectSeq(KeptFields(T.Fields[2].Fields, parseTQLTag(T.Fields[2]).omit,
                         parseTQLTag(T.Fields[2]).field \o "."),
              LAMBDA x : parseTQLTag(T.Fields[2].Fields[x + 1]).field = "id")

\* the kept fields of table B that the list names
NamedOfB(T, list) ==
    SelectSeq(KeptFields(T.Fields[2].Fields, parseTQLTag(T.Fields[2]).omit,
                         parseTQLTag(T.Fields[2]).field \o "."),
              LAMBDA x : NamedBy(list, parseTQLTag(T.Fields[2]).field,
                                 parseTQLTag(T.Fields[2].Fields[x + 1]).field))

\* the first pass ran on SELECT A.*, B.id FROM ... for the two tables A, B
SelectTableStar ==
    /\ pass = 1
    /\ TwoTables(RecordTypes[recType])
    /\ FoldedAt(sqlIn, 1, "select", "SELECT")
    /\ selectMatches # <<>>
    /\ selectMatches[1] = parseTQLTag(RecordTypes[recType].Fields[1]).field \o ".*, "
                          \o parseTQLTag(RecordTypes[recType].Fields[2]).field \o ".id"

\* the list and the plan are the columns of A's fields a and of B's fields b
TableStarResult(a, b) ==
    LET T == RecordTypes[recType]
        cols == TableColumns(T, 1, a) \o TableColumns(T, 2, b)
        at == Index(sqlIn, selectMatches[1])
    IN /\ selectedFields = cols
       /\ indices = TablePaths(1, a) \o TablePaths(2, b)
       /\ sql = SubSeq(sqlIn, 1, at - 1) \o Join(cols, ", ")
                 \o SubSeq(sqlIn, at + Len(selectMatches[1]), Len(sqlIn))

HasOmitDirective(tag) ==
    \E k \in 1..Len(tagRegex(tag)) :
        /\ tagRegex(tag)[k].m1 = "omit"
        /\ TrimSpace(tagRegex(tag)[k].m2) \in {"", "true"}

\* the index paths of the fields of T, top-level fields and fields of tables
FieldPaths(T) ==
    {<<i - 1>> : i \in 1..Len(T.Fields)}
    \cup UNION {{<<i - 1, j - 1>> : j \in 1..Len(T.Fields[i].Fields)} : i \in 1..Len(T.Fields)}

\* the field at path is in no column of the list, in no plan entry, and no
\* column is scanned into it
LeftOut(T, path) ==
    /\ \A k \in 1..Len(selectedFields) : ~IsColumnOf(T, selectedFields[k], path)
    /\ \A k \in 1..Len(indices) : indices[k] # path
    /\ \A k \in 1..Len(dest) : dest[k] # path

\* C4: a field that carries the per-field omit directive in its tql tag is
\* never in the rewritten column list nor in the scan plan, whatever the SQL
\* text, and no column is scanned into it.
OmitDirectiveWins ==
    pass >= 1 =>
        \A path \in FieldPaths(RecordTypes[recType]) :
            HasOmitDirective(FieldByIndex(RecordTypes[recType], path).Tag)
                => LeftOut(RecordTypes[recType], path)

\* the field at path lies in an embedded table whose omit list holds its name
\* or its qualified name
TableOmits(T, path) ==
    /\ Len(path) = 2
    /\ \/ Listed(parseTQLTag(T.Fields[path[1] + 1]).omit,
                 parseTQLTag(FieldByIndex(T, path)).field)
       \/ Listed(parseTQLTag(T.Fields[path[1] + 1]).omit, ColumnOf(T, path))

\* C5: a field whose name or qualified name is listed in the omit directive of
\* its enclosing table is never in the rewritten column list nor in the scan
\* plan, whatever the SQL text; User{id, name, createdAt} tagged omit=createdAt
\* with SELECT User.* FROM User gives SELECT User.id, User.name FROM User and
\* the plan [User.Id, User.Name].
TableOmitWins ==
    pass >= 1 =>
        /\ \A path \in FieldPaths(RecordTypes[recType]) :
              TableOmits(RecordTypes[recType], path) => LeftOut(RecordTypes[recType], path)
        /\ (pass = 1 /\ recType = "UserOmit" /\ sqlIn = "SELECT User.* FROM User") =>
              /\ sql = "SELECT User.id, User.name FROM User"
              /\ indices = <<<<0, 0>>, <<0, 1>>>>

\* C5 witness: the omitted createdAt is named by an inner span and User.* is
\* narrowed, and the list is User.id alone
TableOmitWinsWitness ==
    /\ pass = 1
    /\ recType = "UserOmit"
    /\ Len(selectMatches) = 2
    /\ containsWords(selectMatches[2], <<"User.createdAt">>)
    /\ selectedFields = <<"User.id">>
    /\ dest = <<<<0, 0>>>>

\* C6: Parse is a fixed point on its own output: run again on the SQL a first
\* pass returned, it returns the same SQL text and the same scan plan; a fully
\* qualified list, SELECT User.id, User.name FROM User ..., comes back
\* unchanged with the plan [User.Id, User.Name].  Stated for a first pass that
\* selected a column, whose output holds a SELECT list again.
ParseFixedPoint ==
    /\ (pass = 2 /\ prevIndices # <<>>) => (sql = prevSql /\ indices = prevIndices)
    /\ (pass >= 1 /\ recType = "UserOmit"
          /\ sqlIn = "SELECT User.id, User.name FROM User WHERE User.id = ?") =>
          (sql = sqlIn /\ indices = <<<<0, 0>>, <<0, 1>>>>)

\* w stands in text at p as a complete identifier: no word character before
\* it and none behind it
IdentifierAt(text, p, w) ==
    /\ p + Len(w) - 1 <= Len(text)
    /\ SubSeq(text, p, p + Len(w) - 1) = w
    /\ p = 1 \/ ~IsWordChar(At(text, p - 1))
    /\ p + Len(w) > Len(text) \/ ~IsWordChar(At(text, p + Len(w)))

\* some span holds the name as a complete identifier, bare, behind its table
\* and a dot, or as an alias
NamedWhole(spans, name) ==
    \E m \in 1..Len(spans) : \E p \in 1..Len(spans[m]) : IdentifierAt(spans[m], p, name)

\* the text holds no wildcard
NoStar(text) == \A p \in 1..Len(text) : At(text, p) # "*"

\* C7: when a field's table is not wildcard-selected, the field is included
\* only if a SELECT span references its bare name, its table.field form, or it
\* as the right-hand side of an alias, as a complete identifier: an occurrence
\* as part of a longer identifier does not include the field.
IncludedOnlyWhenNamedWhole ==
    (pass = 1 /\ selectMatches # <<>> /\ NoStar(selectMatches[1])) =>
        \A i \in 1..Len(indices) :
            NamedWhole(selectMatches,
                       parseTQLTag(FieldByIndex(RecordTypes[recType], indices[i])).field)

RECURSIVE TopLevelColumns(_, _, _, _)
\* the columns of a SELECT list: its parts between the commas that stand
\* outside every pair of parentheses; from is the start of the column at
\* hand, p the place looked at, depth the parentheses open there
TopLevelColumns(list, from, p, depth) ==
    IF p > Len(list) THEN <<SubSeq(list, from, Len(list))>>
    ELSE IF At(list, p) = "(" THEN TopLevelColumns(list, from, p + 1, depth + 1)
    ELSE IF At(list, p) = ")" THEN TopLevelColumns(list, from, p + 1, depth - 1)
    ELSE IF At(list, p) = "," /\ depth = 0
         THEN <<SubSeq(list, from, p - 1)>> \o TopLevelColumns(list, p + 1, p + 1, 0)
    ELSE TopLevelColumns(list, from, p + 1, depth)

\* C8: when the original SELECT list holds a column written expr as
\* <qualifiedName> for a field, the rewritten list keeps that expression and
\* alias verbatim at the field's position, so the aliased column is scanned
\* into the field.
AliasKeptVerbatim ==
    (pass = 1 /\ selectMatches # <<>>) =>
        \A c \in 1..Len(TopLevelColumns(selectMatches[1], 1, 1, 0)) :
            \A i \in 1..Len(indices) :
                HasSuffix(TopLevelColumns(selectMatches[1], 1, 1, 0)[c],
                          " as " \o ColumnOf(RecordTypes[recType], indices[i]))
                    => TrimSpace(selectedFields[i])
                       = TrimSpace(TopLevelColumns(selectMatches[1], 1, 1, 0)[c])

\* the outer list selects table i of T by wildcard: the list is "*", or holds
\* the table's alias, a dot and "*"
StarOver(T, i) ==
    \/ TrimSpace(selectMatches[1]) = "*"
    \/ \E p \in 1..Len(selectMatches[1]) :
          WordAt(selectMatches[1], p, parseTQLTag(T.Fields[i]).field \o ".*")

\* some span holds the alias of table i of T, a dot and an identifier
NarrowedBy(T, i) ==
    \E m \in 1..Len(selectMatches) : \E p \in 1..Len(selectMatches[m]) :
        /\ WordAt(selectMatches[m], p, parseTQLTag(T.Fields[i]).field \o ".")
        /\ p + Len(parseTQLTag(T.Fields[i]).field) + 1 <= Len(selectMatches[m])
        /\ IsWordChar(At(selectMatches[m], p + Len(parseTQLTag(T.Fields[i]).field) + 1))

\* C9: a table whose alias appears as alias.* (or under "*") in the outer
\* SELECT list, while some span holds alias.<identifier>, is not
\* wildcard-expanded: exactly those of its non-omitted fields that are
\* referenced one by one in some span are in the plan, the others are not.
NarrowedToNamedFields ==
    (pass = 1 /\ selectMatches # <<>>) =>
        \A path \in FieldPaths(RecordTypes[recType]) :
            (/\ Len(path) = 2
             /\ StarOver(RecordTypes[recType], path[1] + 1)
             /\ NarrowedBy(RecordTypes[recType], path[1] + 1)
             /\ ~TableOmits(RecordTypes[recType], path)
             /\ parseTQLTag(FieldByIndex(RecordTypes[recType], path)).omit # "true")
            => ((\E k \in 1..Len(indices) : indices[k] = path)
                <=> NamedWhole(selectMatches,
                               parseTQLTag(FieldByIndex(RecordTypes[recType], path)).field))

\* C10: Parse changes the SQL text only by putting the rewritten column list
\* in the place of the first SELECT ... FROM span, where that span was
\* matched: the text before the span and the text behind it are unchanged,
\* and SQL with no such span comes back unchanged with an empty scan plan.
OnlyFirstSpanReplaced ==
    pass >= 1 =>
        IF FindAllSelect(prevSql, 1) = <<>>
        THEN sql = prevSql /\ indices = <<>>
        ELSE sql = SubSeq(prevSql, 1, FindAllSelect(prevSql, 1)[1].lo - 1)
                   \o Join(selectedFields, ", ")
                   \o SubSeq(prevSql, FindAllSelect(prevSql, 1)[1].hi + 1, Len(prevSql))


\* C11: Parse reports no failure for a struct record: it returns a plan of
\* field paths of the record; a declared field that is neither
\* wildcard-selected nor referenced anywhere in the SQL text is left out of
\* the plan, and when no field is, the SELECT list is replaced by the empty
\* list and the plan is empty.
UnnamedFieldLeftOut ==
    (pass = 1 /\ selectMatches # <<>>) =>
        /\ \A k \in 1..Len(indices) : indices[k] \in FieldPaths(RecordTypes[recType])
        /\ NoStar(sqlIn) =>
              \A path \in FieldPaths(RecordTypes[recType]) :
                  ~NamedWhole(<<sqlIn>>, parseTQLTag(FieldByIndex(RecordTypes[recType], path)).field)
                      => \A k \in 1..Len(indices) : indices[k] # path
        /\ (NoStar(sqlIn) /\ \A path \in FieldPaths(RecordTypes[recType]) :
                ~NamedWhole(<<sqlIn>>, parseTQLTag(FieldByIndex(RecordTypes[recType], path)).field)) =>
              /\ indices = <<>>
              /\ selectedFields = <<>>
              /\ Len(sql) = Len(sqlIn) - Len(selectMatches[1])


\* the text begins, after optional white space, with the keyword WITH in
\* upper or lower case, followed by white space: the prefix of a CTE
BeginsWithCTE(text) ==
    /\ Len(TrimSpace(text)) > 4
    /\ FoldedAt(TrimSpace(text), 1, "with", "WITH")
    /\ IsSpace(At(TrimSpace(text), 5))

\* C12: for a struct T, New returns ErrUnsupportedCTE and no query template
\* whenever the SQL text begins, after optional leading white space, with a
\* WITH name AS (...) prefix, keywords in upper or lower case; no SQL with a
\* leading CTE reaches Parse or the database.
LeadingCTERejected ==
    (entry = "New" /\ called # <<>> /\ typeParam \in RecordNames /\ BeginsWithCTE(templateText)) =>
        /\ queryTemplate = Nil
        /\ called = <<"New">> => err = {ErrUnsupportedCTE}
        /\ sent = <<>>

\* C13: New returns ErrInvalidType and no query template whenever T is not a
\* struct, for every template: also for a template with a leading CTE and for
\* one that calls an undefined function.
NonStructRejected ==
    (entry = "New" /\ called = <<"New">> /\ typeParam \notin RecordNames) =>
        /\ queryTemplate = Nil
        /\ err = {ErrInvalidType}

\* New[any] was given a template that begins with a CTE and calls an
\* undefined function, and returned ErrInvalidType
NonStructRejectedWitness ==
    /\ called = <<"New">>
    /\ typeParam = "any"
    /\ templateText = "WITH u AS (SELECT {{ uuid }} FROM User) SELECT * FROM u"
    /\ functions = NoFunctions
    /\ queryTemplate = Nil
    /\ err = {ErrInvalidType}


\* the template calls the function that returns an error
GenerationFails ==
    /\ Index(templateText, "{{ fail }}") > 0
    /\ "fail" \in DOMAIN functions

\* PrepareContext returned no statement and an error that wraps
\* ErrPreparingQuery, and the database's PrepareContext was not called
FailedBeforeDatabase ==
    /\ statement = Nil
    /\ ErrPreparingQuery \in err
    /\ sent = <<>>

\* C20: PrepareContext returns a nil statement and an error wrapping
\* ErrPreparingQuery, without calling the database's PrepareContext, when the
\* query is nil, its template is nil, the handle is nil or the template fails
\* to generate; the tests run in that order: the nil-query error also wraps
\* ErrNilQuery whatever the handle, the nil-template error also wraps
\* ErrNilTemplate whatever the handle, and a nil handle is reported before
\* the template is generated.  Query and QueryContext on a nil query return an
\* error wrapping ErrExecutingQuery.
PrepareFailsBeforeDatabase ==
    /\ (called = <<"New", "PrepareContext">> /\ args.query = Nil) =>
          (FailedBeforeDatabase /\ ErrNilQuery \in err)
    /\ (called = <<"New", "PrepareContext">> /\ args.query # Nil /\ args.query[1].template = Nil) =>
          (FailedBeforeDatabase /\ ErrNilTemplate \in err /\ ErrNilQuery \notin err)
    /\ (called = <<"New", "PrepareContext">> /\ args.query # Nil /\ args.query[1].template # Nil
          /\ args.txOrDb = NilHandle) =>
          (FailedBeforeDatabase /\ err = {ErrPreparingQuery})
    /\ (called = <<"New", "PrepareContext">> /\ args.query # Nil /\ args.query[1].template # Nil
          /\ args.txOrDb # NilHandle /\ GenerationFails) =>
          (FailedBeforeDatabase /\ TemplateError \in err)
    /\ (called = <<"New", "QueryContext">> /\ args.query = Nil) =>
          (ErrExecutingQuery \in err /\ sent = <<>>)

\* PrepareContext was called with a query, a database and a template whose
\* function fails, and returned before the database was called
PrepareFailsBeforeDatabaseWitness ==
    /\ called = <<"New", "PrepareContext">>
    /\ args.query # Nil
    /\ args.query = queryTemplate
    /\ args.txOrDb = "db"
    /\ GenerationFails
    /\ statement = Nil
    /\ err = {ErrPreparingQuery, TemplateError}
    /\ sent = <<>>


\* b is printable ASCII and none of single quote, backslash, percent and
\* underscore
PlainByte(b) == b >= 32 /\ b <= 126 /\ b \notin {39, 92, 37, 95}

\* C14: for every byte string, issimple.Unroll16 (used by IsSimple) and
\* issimple.Unroll64 return the same boolean as issimple.Naive: true iff every
\* byte is printable ASCII and none is a single quote, backslash, percent or
\* underscore, for every length: 16 or more, 64 or more, and lengths that are
\* no multiple of the batch size.
UnrollAgreesWithNaive ==
    (entry = "Quote" /\ called # <<>>) =>
        /\ isSimple.Naive = "true" <=> \A i \in 1..Len(str) : PlainByte(str[i])
        /\ isSimple.Naive \in {"true", "false"}
        /\ isSimple.Unroll16 = isSimple.Naive
        /\ isSimple.Unroll64 = isSimple.Naive

\* some byte of the string has bit 7 set
HasHighBit == \E i \in 1..Len(str) : str[i] >= 128

\* C15: for every byte string, needsutf8.Unroll8 (used by NeedsUTF8),
\* Unroll16 and Unroll32 return the same boolean as needsutf8.Naive: true iff
\* at least one byte has bit 7 set, wherever that byte is and whatever the
\* length.
HighBitUnrollAgreesWithNaive ==
    (entry = "Quote" /\ Len(called) >= 2) =>
        /\ needsUTF8.Naive = "true" <=> HasHighBit
        /\ needsUTF8.Naive \in {"true", "false"}
        /\ needsUTF8.Unroll8 = needsUTF8.Naive
        /\ needsUTF8.Unroll16 = needsUTF8.Naive
        /\ needsUTF8.Unroll32 = needsUTF8.Naive

EscapeLetter(b) ==
    IF b = 0 THEN 48 ELSE IF b = 7 THEN 97 ELSE IF b = 8 THEN 98
    ELSE IF b = 9 THEN 116 ELSE IF b = 10 THEN 110 ELSE IF b = 11 THEN 118
    ELSE IF b = 12 THEN 102 ELSE IF b = 13 THEN 114 ELSE IF b = 26 THEN 90
    ELSE b

Escaped(b) == b \in {39, 92, 0, 7, 8, 12, 10, 13, 9, 11, 26, 37, 95}

\* the literal without the charset marker, from its opening quote on
Literal(q) == IF q[1] = 39 THEN q ELSE SubSeq(q, Len(Utf8mb4) + 1, Len(q))

\* where byte i of the string stands in the literal: behind the opening
\* quote, the bytes before it and one backslash for each escaped one of them
PlaceOf(i) == 1 + i + Cardinality({k \in 1..(i - 1) : Escaped(str[k])})

HasMarker(q) ==
    /\ Len(q) > Len(Utf8mb4)
    /\ SubSeq(q, 1, Len(Utf8mb4)) = Utf8mb4
    /\ q[Len(Utf8mb4) + 1] = 39

\* C18: Quote's output starts with the utf8mb4 marker right before the
\* opening quote iff the input has a byte with the high bit set, for every
\* length and every place of that byte.
MarkerIffHighBit ==
    (entry = "Quote" /\ Len(called) >= 3) => (HasMarker(quoted) <=> HasHighBit)

RECURSIVE LiteralValue(_, _)
\* the value MySQL reads from the bytes of a string literal between its
\* quotes, from place p on: a backslash and 0, b, n, r, t or Z stand for a
\* control byte; outside a pattern a backslash and a percent sign or an
\* underscore stand for both bytes; before any other byte the backslash is
\* dropped
LiteralValue(q, p) ==
    IF p >= Len(q) THEN <<>>
    ELSE IF q[p] # 92 THEN <<q[p]>> \o LiteralValue(q, p + 1)
    ELSE IF q[p + 1] = 48 THEN <<0>> \o LiteralValue(q, p + 2)
    ELSE IF q[p + 1] = 98 THEN <<8>> \o LiteralValue(q, p + 2)
    ELSE IF q[p + 1] = 110 THEN <<10>> \o LiteralValue(q, p + 2)
    ELSE IF q[p + 1] = 114 THEN <<13>> \o LiteralValue(q, p + 2)
    ELSE IF q[p + 1] = 116 THEN <<9>> \o LiteralValue(q, p + 2)
    ELSE IF q[p + 1] = 90 THEN <<26>> \o LiteralValue(q, p + 2)
    ELSE IF q[p + 1] \in {37, 95} THEN <<92, q[p + 1]>> \o LiteralValue(q, p + 2)
    ELSE <<q[p + 1]>> \o LiteralValue(q, p + 2)

\* C19: for every string, reading the output of Quote by MySQL's rules for
\* string literals, outside a pattern, gives back the bytes of the string.
QuoteRoundTrips ==
    (entry = "Quote" /\ Len(called) >= 3) => LiteralValue(Literal(quoted), 2) = str

(***************************************************************************)
(* The order and the places of the scan plan, and the omit list of a table *)
(***************************************************************************)

RECURSIVE LeafPathsFrom(_, _)
\* the index paths of the leaf fields of T from the top-level field i on, in
\* declaration order: the fields of an embedded table in its place, a
\* top-level scalar field by itself
LeafPathsFrom(T, i) ==
    IF i > Len(T.Fields) THEN <<>>
    ELSE IF T.Fields[i].Kind = "struct"
         THEN [j \in 1..Len(T.Fields[i].Fields) |-> <<i - 1, j - 1>>]
              \o LeafPathsFrom(T, i + 1)
         ELSE <<<<i - 1>>>> \o LeafPathsFrom(T, i + 1)

LeafPaths(T) == LeafPathsFrom(T, 1)

RECURSIVE IsSubsequence(_, _)
\* s is t with some elements left out
IsSubsequence(s, t) ==
    IF s = <<>> THEN TRUE
    ELSE IF t = <<>> THEN FALSE
    ELSE IF s[1] = t[1] THEN IsSubsequence(Tail(s), Tail(t))
    ELSE IsSubsequence(s, Tail(t))

\* C23: after every Parse the scan plan is a subsequence of the record's leaf
\* fields in declaration order (tables in declaration order, fields in
\* declaration order within each table), however the SELECT list was
\* written, and the columns of the rewritten list stand for the plan's
\* fields in the same order.
PlanInDeclarationOrder ==
    (pass >= 1 /\ selectMatches # <<>>) =>
        /\ IsSubsequence(indices, LeafPaths(RecordTypes[recType]))
        /\ Len(selectedFields) = Len(indices)
        /\ \A i \in 1..Len(indices) :
              IsColumnOf(RecordTypes[recType], selectedFields[i], indices[i])

\* path is the beginning of the longer path other
Contains(path, other) ==
    Len(path) < Len(other) /\ SubSeq(other, 1, Len(path)) = path

\* C24: every entry of the scan plan Parse returns is the index path of a
\* leaf field of the record, no two entries are the same path, and no entry
\* is the path of a location that contains another entry's location, for
\* single-table records, multi-table records and records with tables and
\* top-level scalar fields.
PlanAddressesLeaves ==
    pass >= 1 =>
        /\ \A i \in 1..Len(indices) :
              FieldByIndex(RecordTypes[recType], indices[i]).Kind = "scalar"
        /\ \A i, k \in 1..Len(indices) :
              /\ indices[i] = indices[k] => i = k
              /\ ~Contains(indices[i], indices[k])

\* the entries of the omit list of a table's tag
OmitEntries(omit) ==
    {TrimSpace(Split(omit, ",")[k]) : k \in 1..Len(Split(omit, ","))}

\* field j of the table at the top-level field i is kept by the omit
\* directives as the claim reads them: its own tag does not omit it and
\* neither its name nor its qualified name is an entry of the table's list
NotListed(table, fieldTag) ==
    /\ fieldTag.omit # "true"
    /\ fieldTag.field \notin OmitEntries(table.omit)
    /\ QualifiedName(table.tableName, fieldTag.field) \notin OmitEntries(table.omit)

\* the field is wildcard-selected with its table or named by a span
Wanted(matches, table, fieldTag) ==
    \/ SelectAllFromTable(matches, table.tableName)
    \/ Referenced(matches, table.tableName, fieldTag.field,
                  QualifiedName(table.tableName, fieldTag.field))

\* C25: in a record of embedded tables, a field that is not omitted by its
\* own tag and whose name and qualified name are not entries of its table's
\* omit list is in the scan plan whenever its table is wildcard-selected or
\* a span references the field.
TableOmitOnlyNamed ==
    (pass >= 1 /\ selectMatches # <<>>) =>
        LET T == RecordTypes[recType]
        IN (\A i \in 1..Len(T.Fields) : T.Fields[i].Kind = "struct") =>
              \A i \in 1..Len(T.Fields) : \A j \in 1..Len(T.Fields[i].Fields) :
                 (/\ NotListed(TableOf(T, i), parseTQLTag(T.Fields[i].Fields[j]))
                  /\ Wanted(selectMatches, TableOf(T, i),
                            parseTQLTag(T.Fields[i].Fields[j])))
                 => \E k \in 1..Len(indices) : indices[k] = <<i - 1, j - 1>>

(***************************************************************************)
(* The literal Quote writes, the caller's buffer, and the batch loop       *)
(***************************************************************************)

RECURSIVE EscapesClosed(_, _)
\* q, a literal with its two quotes, read from place p on: a backslash takes
\* the byte behind it along, which must not be the closing quote; a single
\* quote must have been taken along by a backslash; the reading ends at the
\* closing quote
EscapesClosed(q, p) ==
    IF p = Len(q) THEN TRUE
    ELSE IF p > Len(q) THEN FALSE
    ELSE IF q[p] = 92 THEN p + 1 < Len(q) /\ EscapesClosed(q, p + 2)
    ELSE IF q[p] = 39 THEN FALSE
    ELSE EscapesClosed(q, p + 1)

QuoteIfNeededAsQuote ==
    (entry = "Quote" /\ Len(called) = 4 /\ isSimple.Unroll16 # "panic") =>
        quotedIfNeeded = quoted

\* C28: IsSimple and QuoteIfNeeded return for every string: the batch loop
\* of issimple.Unroll16 never reads behind the end of the string.
ClassifierReturns ==
    entry = "Quote" =>
        /\ Len(called) >= 1 => isSimple.Unroll16 \in {"true", "false"}
        /\ Len(called) = 4 => quotedIfNeeded # <<>>

(***************************************************************************)
(* The methods of a statement, Close and the cancelled context             *)
(***************************************************************************)

\* the methods that run the prepared statement
RunsStatement(op) == op \in {"ExecContext", "Exec", "QueryContext", "Query"}

\* C21: once a Close() of the caller on a QueryStmt has returned, every
\* later ExecContext, Exec, QueryContext and Query on it returns ErrNilStmt,
\* without a panic and without going to the database.
ClosedStatementReturnsErrNilStmt ==
    (entry = "Stmt" /\ RunsStatement(last.op) /\ last.afterClose) =>
        /\ ~last.panicked
        /\ last.err = {ErrNilStmt}
        /\ ~last.touched

\* C22: once the context PrepareContext was given is cancelled, the prepared
\* statement of the QueryStmt it returned is closed in the end, whether or
\* not the caller calls Close.  (A panic ends the program and with it the
\* statement; a run in which the caller has made all of its MaxCalls calls
\* is left aside, so that a run that refutes this is one the caller is free
\* to go on in.)
ClosedOnceCancelled ==
    (entry = "Stmt" /\ ctxDone /\ statement # Nil)
        ~> (closes > 0 \/ ~Alive \/ calls = MaxCalls)

\* C29: in the variant that registers Close with context.AfterFunc, an
\* ExecContext, Exec, QueryContext or Query that began on the open statement
\* never calls a method of a nil prepared statement, however the steps of
\* the Close that the cancelled context started fall between its own: it
\* runs on the statement or returns an error.
CancelNeverNilsRunningCall ==
    (entry = "Stmt" /\ variant = "second" /\ RunsStatement(last.op) /\ last.startedOpen) =>
        ~last.panicked

\* C30: with no other goroutine in Close, the first Close on a statement
\* closes the prepared statement once, sets it to nil and returns nil; every
\* later Close returns nil, closes nothing and leaves the QueryStmt as it
\* was; Close on a nil QueryStmt returns ErrNilQuery.  The prepared
\* statement is never closed twice, and SQL, scan plan and template stay.
CloseIdempotent ==
    (entry = "Stmt" /\ last.op = "Close" /\ call.pc \in {"idle", "panic"}
     /\ afterFunc \in {"none", "registered"}) =>
        /\ ~last.panicked
        /\ closes <= 1
        /\ IF last.before = Nil
           THEN last.err = {ErrNilQuery} /\ statement = Nil /\ closes = last.closesBefore
           ELSE IF last.before[1].prepared # NilHandle
           THEN /\ last.err = {}
                /\ closes = last.closesBefore + 1
                /\ statement = <<[last.before[1] EXCEPT !.prepared = NilHandle]>>
           ELSE /\ last.err = {}
                /\ closes = last.closesBefore
                /\ statement = last.before

\* the caller's third Close in a row returned on the statement its first
\* Close had closed: the prepared statement was closed once and the SQL and
\* the scan plan are the prepared ones
CloseIdempotentWitness ==
    /\ entry = "Stmt"
    /\ last.op = "Close"
    /\ last.afterClose
    /\ last.before # Nil
    /\ calls = 3
    /\ used = 0
    /\ call.pc = "idle"
    /\ afterFunc \in {"none", "registered"}
    /\ closes = 1
    /\ last.err = {}
    /\ statement[1].prepared = NilHandle
    /\ statement[1].SQL = StmtTemplate
    /\ statement[1].indices = <<<<0, 0>>, <<0, 1>>>>

====
